---- MODULE Spec2Model ----
(***************************************************************************)
(* A model of the ratmath expression parser (src/src/index.js).            *)
(*                                                                         *)
(* Parser.parse(expression, options) is a pure function of the text, the   *)
(* options (typeAware, inputBase) and the process-wide prefix registry.    *)
(* The text is a TLA+ string; every parsing routine of the source is an    *)
(* operator of the same name that returns a record                         *)
(*      [ok, value, rem, err]                                              *)
(* where ok = FALSE stands for a thrown Error (err is its message) and rem *)
(* is the source's remainingExpr.  A try/catch of the source is a test of  *)
(* ok.  Numbers are exact: a rational is a reduced pair [n, d] with d > 0, *)
(* and a value is a record carrying its class (Integer, Rational,          *)
(* RationalInterval), both endpoints and the ad-hoc flags the parser       *)
(* attaches to its objects (_explicitFraction, _explicitInterval,          *)
(* _skipPromotion).                                                        *)
(*                                                                         *)
(* The numeric classes and the transcendental routines come from the       *)
(* packages @ratmath/core and @ratmath/reals, which are not part of the    *)
(* source tree; they are modelled from the contract the specification      *)
(* gives for them.  A result of a transcendental routine is an interval    *)
(* whose endpoints are not computed (field tr).                            *)
(***************************************************************************)
EXTENDS Integers, Sequences, FiniteSets, TLC

\* ------------------------------------------------------------------------
\* Text primitives (JavaScript String methods; indices are 0-based as in
\* the source, SubSeq is 1-based)
\* ------------------------------------------------------------------------

charAt(s, i) == IF i >= 0 /\ i < Len(s) THEN SubSeq(s, i + 1, i + 1) ELSE ""

substring(s, i, j) == SubSeq(s, i + 1, j)

substringFrom(s, i) == SubSeq(s, i + 1, Len(s))

startsWith(s, p) == Len(s) >= Len(p) /\ SubSeq(s, 1, Len(p)) = p

endsWith(s, p) == Len(s) >= Len(p) /\ SubSeq(s, Len(s) - Len(p) + 1, Len(s)) = p

includes(s, p) == \E i \in 1..(Len(s) - Len(p) + 1) : SubSeq(s, i, i + Len(p) - 1) = p

Min(S) == CHOOSE x \in S : \A y \in S : x <= y

Max(S) == CHOOSE x \in S : \A y \in S : x >= y

indexOf(s, p) ==
  LET hits == {i \in 0..(Len(s) - Len(p)) : SubSeq(s, i + 1, i + Len(p)) = p}
  IN IF hits = {} THEN -1 ELSE Min(hits)

indexOfFrom(s, p, from) ==
  LET hits == {i \in from..(Len(s) - Len(p)) : SubSeq(s, i + 1, i + Len(p)) = p}
  IN IF hits = {} THEN -1 ELSE Min(hits)

lastIndexOf(s, p) ==
  LET hits == {i \in 0..(Len(s) - Len(p)) : SubSeq(s, i + 1, i + Len(p)) = p}
  IN IF hits = {} THEN -1 ELSE Max(hits)

LowerLetters == "abcdefghijklmnopqrstuvwxyz"

UpperLetters == "ABCDEFGHIJKLMNOPQRSTUVWXYZ"

DigitChars == "0123456789"

isDigit(c) == Len(c) = 1 /\ includes(DigitChars, c)

isLower(c) == Len(c) = 1 /\ includes(LowerLetters, c)

isUpper(c) == Len(c) = 1 /\ includes(UpperLetters, c)

isLetter(c) == isLower(c) \/ isUpper(c)

isWordChar(c) == isDigit(c) \/ isLetter(c) \/ c = "_"

isSpace(c) == c = " "

charToUpper(c) == IF isLower(c) THEN charAt(UpperLetters, indexOf(LowerLetters, c)) ELSE c

charToLower(c) == IF isUpper(c) THEN charAt(LowerLetters, indexOf(UpperLetters, c)) ELSE c

RECURSIVE toUpperCase(_)
toUpperCase(s) == IF s = "" THEN "" ELSE charToUpper(charAt(s, 0)) \o toUpperCase(substringFrom(s, 1))

RECURSIVE toLowerCase(_)
toLowerCase(s) == IF s = "" THEN "" ELSE charToLower(charAt(s, 0)) \o toLowerCase(substringFrom(s, 1))

\* the length of the longest prefix of s starting at index i whose
\* characters all satisfy membership in the character string cls
RECURSIVE scanWhile(_, _, _)
scanWhile(s, i, cls) ==
  IF i < Len(s) /\ includes(cls, charAt(s, i)) THEN scanWhile(s, i + 1, cls) ELSE i

allIn(s, cls) == \A i \in 0..(Len(s) - 1) : includes(cls, charAt(s, i))

\* String.prototype.split on a one-character separator set
RECURSIVE splitOn(_, _)
splitOn(s, seps) ==
  LET cut == {i \in 0..(Len(s) - 1) : includes(seps, charAt(s, i))}
  IN IF cut = {} THEN <<s>>
     ELSE <<substring(s, 0, Min(cut))>> \o splitOn(substringFrom(s, Min(cut) + 1), seps)

\* String.prototype.split on a separator string
RECURSIVE splitStr(_, _)
splitStr(s, sep) ==
  LET k == indexOf(s, sep)
  IN IF k < 0 THEN <<s>>
     ELSE <<substring(s, 0, k)>> \o splitStr(substringFrom(s, k + Len(sep)), sep)

\* ------------------------------------------------------------------------
\* Exact arithmetic
\* ------------------------------------------------------------------------

Abs(x) == IF x < 0 THEN -x ELSE x

RECURSIVE GCD(_, _)
GCD(a, b) == IF b = 0 THEN a ELSE GCD(b, a % b)

RECURSIVE IPow(_, _)
IPow(b, n) == IF n <= 0 THEN 1 ELSE b * IPow(b, n - 1)

\* a reduced fraction with positive denominator (d # 0)
Q(n, d) ==
  LET g == GCD(Abs(n), Abs(d))
      s == IF d < 0 THEN -1 ELSE 1
  IN [n |-> s * (n \div g), d |-> s * (d \div g)]

QInt(z) == [n |-> z, d |-> 1]

QAdd(a, b) == Q(a.n * b.d + b.n * a.d, a.d * b.d)

QSub(a, b) == Q(a.n * b.d - b.n * a.d, a.d * b.d)

QMul(a, b) == Q(a.n * b.n, a.d * b.d)

QDiv(a, b) == Q(a.n * b.d, a.d * b.n)

QNeg(a) == [n |-> -a.n, d |-> a.d]

QLe(a, b) == a.n * b.d <= b.n * a.d

QLt(a, b) == a.n * b.d < b.n * a.d

QIsZero(a) == a.n = 0

QIsInt(a) == a.d = 1

\* integer power of a non-zero-or-nonnegative-exponent rational
QPow(a, k) ==
  IF k >= 0 THEN [n |-> IPow(a.n, k), d |-> IPow(a.d, k)]
  ELSE Q(IPow(a.d, -k), IPow(a.n, -k))

QMin(S) == CHOOSE x \in S : \A y \in S : QLe(x, y)

QMax(S) == CHOOSE x \in S : \A y \in S : QLe(y, x)

\* ------------------------------------------------------------------------
\* Results of the parsing routines: a returned {value, remainingExpr} or a
\* thrown Error
\* ------------------------------------------------------------------------

NoQ == [n |-> 0, d |-> 1]

NoValue == [t |-> "none", lo |-> NoQ, hi |-> NoQ, ef |-> FALSE, ei |-> FALSE, sp |-> FALSE, tr |-> FALSE]

Ok(v, r) == [ok |-> TRUE, value |-> v, rem |-> r, err |-> ""]

Err(msg) == [ok |-> FALSE, value |-> NoValue, rem |-> "", err |-> msg]

\* ------------------------------------------------------------------------
\* The numeric classes of @ratmath/core (Integer, Rational,
\* RationalInterval).  A freshly constructed object carries none of the
\* parser's flags.
\* ------------------------------------------------------------------------

mkValue(t, lo, hi) == [t |-> t, lo |-> lo, hi |-> hi, ef |-> FALSE, ei |-> FALSE, sp |-> FALSE, tr |-> FALSE]

newInteger(z) == mkValue("Integer", QInt(z), QInt(z))

newRational(q) == mkValue("Rational", q, q)

\* new RationalInterval(a, b): the constructor orders its endpoints
newRationalInterval(a, b) ==
  IF QLe(a, b) THEN mkValue("RationalInterval", a, b) ELSE mkValue("RationalInterval", b, a)

pointInterval(q) == mkValue("RationalInterval", q, q)

\* an enclosure computed by a transcendental routine: its endpoints are
\* not modelled
opaqueInterval == [mkValue("RationalInterval", NoQ, NoQ) EXCEPT !.tr = TRUE]

isInteger(v) == v.t = "Integer"

isRational(v) == v.t = "Rational"

isInterval(v) == v.t = "RationalInterval"

isPoint(v) == v.lo = v.hi

containsZero(v) == QLe(v.lo, QInt(0)) /\ QLe(QInt(0), v.hi)

\* the class of the result of a binary operation
joinClass(a, b) ==
  IF isInterval(a) \/ isInterval(b) THEN "RationalInterval"
  ELSE IF isRational(a) \/ isRational(b) THEN "Rational"
  ELSE "Integer"

hull(S) == mkValue("RationalInterval", QMin(S), QMax(S))

scalarOf(t, q) == mkValue(t, q, q)

add(a, b) ==
  IF a.tr \/ b.tr THEN Ok(opaqueInterval, "")
  ELSE IF joinClass(a, b) = "RationalInterval"
    THEN Ok(mkValue("RationalInterval", QAdd(a.lo, b.lo), QAdd(a.hi, b.hi)), "")
  ELSE Ok(scalarOf(joinClass(a, b), QAdd(a.lo, b.lo)), "")

subtract(a, b) ==
  IF a.tr \/ b.tr THEN Ok(opaqueInterval, "")
  ELSE IF joinClass(a, b) = "RationalInterval"
    THEN Ok(mkValue("RationalInterval", QSub(a.lo, b.hi), QSub(a.hi, b.lo)), "")
  ELSE Ok(scalarOf(joinClass(a, b), QSub(a.lo, b.lo)), "")

multiply(a, b) ==
  IF a.tr \/ b.tr THEN Ok(opaqueInterval, "")
  ELSE IF joinClass(a, b) = "RationalInterval"
    THEN Ok(hull({QMul(a.lo, b.lo), QMul(a.lo, b.hi), QMul(a.hi, b.lo), QMul(a.hi, b.hi)}), "")
  ELSE Ok(scalarOf(joinClass(a, b), QMul(a.lo, b.lo)), "")

divide(a, b) ==
  IF a.tr \/ b.tr THEN Ok(opaqueInterval, "")
  ELSE IF containsZero(b) THEN Err("Division by zero")
  ELSE IF joinClass(a, b) = "RationalInterval"
    THEN Ok(hull({QDiv(a.lo, b.lo), QDiv(a.lo, b.hi), QDiv(a.hi, b.lo), QDiv(a.hi, b.hi)}), "")
  ELSE IF joinClass(a, b) = "Integer" /\ QIsInt(QDiv(a.lo, b.lo))
    THEN Ok(newInteger(QDiv(a.lo, b.lo).n), "")
  ELSE Ok(newRational(QDiv(a.lo, b.lo)), "")

negate(a) ==
  IF a.tr THEN opaqueInterval ELSE mkValue(a.t, QNeg(a.hi), QNeg(a.lo))

\* value.pow(k): exact power with a whole exponent
pow(a, k) ==
  IF a.tr THEN Ok(opaqueInterval, "")
  ELSE IF k = 0
    THEN IF containsZero(a) THEN Err("Zero cannot be raised to the power of zero")
         ELSE Ok(scalarOf(a.t, QInt(1)), "")
  ELSE IF k < 0 /\ containsZero(a) THEN Err("Zero cannot be raised to a negative power")
  ELSE IF isInterval(a)
    THEN IF Abs(k) % 2 = 0 /\ k > 0 /\ containsZero(a)
           THEN Ok(mkValue("RationalInterval", QInt(0), QMax({QPow(a.lo, k), QPow(a.hi, k)})), "")
         ELSE Ok(hull({QPow(a.lo, k), QPow(a.hi, k)}), "")
  ELSE IF isInteger(a) /\ k > 0 THEN Ok(newInteger(IPow(a.lo.n, k)), "")
  ELSE Ok(newRational(QPow(a.lo, k)), "")

\* interval.mpow(k): the product of k copies of the interval
RECURSIVE mpowPos(_, _)
mpowPos(a, k) == IF k <= 1 THEN a ELSE multiply(mpowPos(a, k - 1), a).value

mpow(a, k) ==
  IF k = 0 THEN Err("Multiplicative exponentiation requires at least one factor")
  ELSE IF a.tr THEN Ok(opaqueInterval, "")
  ELSE IF k > 0 THEN Ok(mpowPos(mkValue("RationalInterval", a.lo, a.hi), k), "")
  ELSE IF containsZero(a) THEN Err("Cannot raise an interval containing zero to a negative power")
  ELSE Ok(mpowPos(hull({QDiv(QInt(1), a.lo), QDiv(QInt(1), a.hi)}), -k), "")

\* value.E(k): multiplication by 10^k
applyE(a, k) ==
  IF a.tr THEN opaqueInterval
  ELSE LET f == QPow(QInt(10), k)
       IN IF isInterval(a) THEN mkValue("RationalInterval", QMul(a.lo, f), QMul(a.hi, f))
          ELSE IF isInteger(a) /\ k >= 0 THEN newInteger(QMul(a.lo, f).n)
          ELSE newRational(QMul(a.lo, f))

RECURSIVE IFact(_)
IFact(n) == IF n <= 1 THEN 1 ELSE n * IFact(n - 1)

RECURSIVE IDoubleFact(_)
IDoubleFact(n) == IF n <= 1 THEN 1 ELSE n * IDoubleFact(n - 2)

factorial(a) ==
  IF a.lo.n < 0 THEN Err("Factorial is not defined for negative integers")
  ELSE Ok(newInteger(IFact(a.lo.n)), "")

doubleFactorial(a) ==
  IF a.lo.n < 0 THEN Err("Double factorial is not defined for negative integers")
  ELSE Ok(newInteger(IDoubleFact(a.lo.n)), "")

\* the routines of @ratmath/reals: each returns an interval that encloses
\* the number it computes.  A power with a whole exponent that the exact
\* algebra can compute is returned as the exact interval.  The enclosure of
\* a known rational number carries that number in lo and hi, with tr set;
\* every other enclosure is not modelled.
wholeExponent(exponent) ==
  ~exponent.tr /\ exponent.lo = exponent.hi /\ exponent.lo.d = 1

enclosureOf(q) == [mkValue("RationalInterval", q, q) EXCEPT !.tr = TRUE]

\* the largest numerator and denominator of a root that is looked for
RootBound == 4

\* the largest index of a root that is looked for
RootIndexBound == 4

\* the positive rationals r with r^n = q
exactRoots(q, n) ==
  IF n > RootIndexBound THEN {}
  ELSE {r \in {Q(a, b) : a \in 1..RootBound, b \in 1..RootBound} : QPow(r, n) = q}

hasExactRoot(v, n) ==
  ~v.tr /\ isPoint(v) /\ n > 0 /\ exactRoots(v.lo, n) # {}

exactRoot(v, n) == CHOOSE r \in exactRoots(v.lo, n) : TRUE

rationalIntervalPower(base, exponent) ==
  IF base.tr \/ exponent.tr THEN opaqueInterval
  ELSE IF wholeExponent(exponent)
    THEN LET exact == pow(mkValue("RationalInterval", base.lo, base.hi), exponent.lo.n)
         IN IF exact.ok THEN exact.value ELSE opaqueInterval
  ELSE IF isPoint(exponent) /\ hasExactRoot(base, exponent.lo.d)
    THEN enclosureOf(QPow(exactRoot(base, exponent.lo.d), exponent.lo.n))
  ELSE opaqueInterval

newtonRoot(base, n) ==
  IF hasExactRoot(base, n) THEN enclosureOf(exactRoot(base, n)) ELSE opaqueInterval

\* ------------------------------------------------------------------------
\* BaseSystem of @ratmath/core: a positional alphabet, and the process-wide
\* registry of 0<letter> prefixes
\* ------------------------------------------------------------------------

NoBase == [name |-> "none", characters |-> ""]

DECIMAL == [name |-> "Decimal", characters |-> "0123456789"]

BINARY == [name |-> "Binary", characters |-> "01"]

OCTAL == [name |-> "Octal", characters |-> "01234567"]

HEXADECIMAL == [name |-> "Hexadecimal", characters |-> "0123456789abcdef"]

\* BaseSystem.fromBase(3)
TERNARY == [name |-> "Base 3", characters |-> "012"]

baseOf(baseSystem) == Len(baseSystem.characters)

isValidChar(baseSystem, c) == Len(c) = 1 /\ includes(baseSystem.characters, c)

isValidString(baseSystem, str) == allIn(str, baseSystem.characters)

RECURSIVE digitsValue(_, _, _)
digitsValue(baseSystem, str, acc) ==
  IF str = "" THEN acc
  ELSE digitsValue(baseSystem, substringFrom(str, 1),
                   acc * baseOf(baseSystem) + indexOf(baseSystem.characters, charAt(str, 0)))

\* baseSystem.toDecimal(str) throws on an empty string and on a character
\* outside the alphabet
canToDecimal(baseSystem, str) == str # "" /\ isValidString(baseSystem, str)

toDecimal(baseSystem, str) == digitsValue(baseSystem, str, 0)

usesLowercase(baseSystem) == \E i \in 0..(baseOf(baseSystem) - 1) : isLower(charAt(baseSystem.characters, i))

usesUppercase(baseSystem) == \E i \in 0..(baseOf(baseSystem) - 1) : isUpper(charAt(baseSystem.characters, i))

\* the registry as it is when the package is loaded
DefaultPrefixes == [x |-> HEXADECIMAL, b |-> BINARY, o |-> OCTAL]

\* a lookup that never finds a base for the letter e
getSystemForPrefixReservingE(registry, prefix) ==
  IF prefix \in {"e", "E"} \/ prefix \notin DOMAIN registry THEN NoBase ELSE registry[prefix]

\* a lookup that finds no base for any letter
noSystemForPrefix(registry, prefix) == NoBase

getSystemForPrefix(registry, prefix) ==
  IF prefix \in DOMAIN registry THEN registry[prefix] ELSE NoBase

RECURSIVE trim(_)
trim(s) ==
  IF s # "" /\ isSpace(charAt(s, 0)) THEN trim(substringFrom(s, 1))
  ELSE IF s # "" /\ isSpace(charAt(s, Len(s) - 1)) THEN trim(substring(s, 0, Len(s) - 1))
  ELSE s

\* String.prototype.replace(pattern, "") for a string pattern: the first
\* occurrence only
removeFirst(s, p) ==
  LET k == indexOf(s, p)
  IN IF k < 0 THEN s ELSE substring(s, 0, k) \o substringFrom(s, k + Len(p))

\* /\[[0-9a-zA-Z]+\]$/
deprecatedBracketSuffix(s) ==
  /\ endsWith(s, "]")
  /\ \E i \in 0..(Len(s) - 3) :
        /\ charAt(s, i) = "["
        /\ \A j \in (i + 1)..(Len(s) - 2) : isDigit(charAt(s, j)) \/ isLetter(charAt(s, j))

\* the case normalisation of a digit string for the bases 11..36
normalizeCase(baseSystem, s) ==
  IF baseOf(baseSystem) <= 36 /\ baseOf(baseSystem) > 10
    THEN IF usesLowercase(baseSystem) /\ ~usesUppercase(baseSystem) THEN toLowerCase(s)
         ELSE IF usesUppercase(baseSystem) /\ ~usesLowercase(baseSystem) THEN toUpperCase(s)
         ELSE s
  ELSE s

\* Every call of one routine of the parser by another goes through invoke, the
\* table of the routines defined at the end of this section.
RECURSIVE invoke(_, _)

\* the effect of "options.typeAware && result.denominator === 1n ? new
\* Integer(result.numerator) : result" on a rational q
integerIfTypeAware(options, q) ==
  IF options.typeAware /\ q.d = 1 THEN newInteger(q.n) ELSE newRational(q)

\* ------------------------------------------------------------------------
\* parseBaseNotation(numberStr, baseSystem, options): a literal in a given
\* base.  Its result has rem = "".
\* ------------------------------------------------------------------------


\* lines 670-715: mantissa times base^exponent
parseBaseNotationENotation(baseNumber, exponentStr, isNegative, baseSystem, options) ==
  LET baseValue == invoke("parseBaseNotation", <<baseNumber, baseSystem, options>>)
      expNeg == startsWith(exponentStr, "-")
      expDigits == IF expNeg THEN substringFrom(exponentStr, 1) ELSE exponentStr
  IN IF ~baseValue.ok THEN baseValue
     ELSE IF ~canToDecimal(baseSystem, expDigits) THEN Err("Invalid character in base string")
     ELSE IF isInterval(baseValue.value)
       THEN Err("E notation can only be applied to simple numbers, not intervals")
     ELSE LET e == toDecimal(baseSystem, expDigits)
              powerOfBase == IF expNeg THEN Q(1, IPow(baseOf(baseSystem), e))
                             ELSE QInt(IPow(baseOf(baseSystem), e))
              prod == QMul(baseValue.value.lo, powerOfBase)
              result == IF isNegative THEN QNeg(prod) ELSE prod
          IN Ok(invoke("integerIfTypeAware", <<options, result>>), "")

\* lines 718-766: lo:hi
parseBaseNotationInterval(baseNumber, isNegative, baseSystem, options) ==
  LET parts == splitStr(baseNumber, ":")
  IN IF Len(parts) # 2
       THEN Err("Base notation intervals must have exactly two endpoints separated by \":\"")
     ELSE LET leftStr == IF isNegative THEN "-" \o trim(parts[1]) ELSE trim(parts[1])
              leftValue == invoke("parseBaseNotation", <<leftStr, baseSystem, options>>)
              rightValue == invoke("parseBaseNotation", <<trim(parts[2]), baseSystem, options>>)
          IN IF ~leftValue.ok THEN leftValue
             ELSE IF ~rightValue.ok THEN rightValue
             ELSE IF ~isPoint(leftValue.value) \/ ~isPoint(rightValue.value)
               THEN Err("Interval endpoints must be single values, not intervals")
             ELSE Ok([newRationalInterval(leftValue.value.lo, rightValue.value.lo)
                        EXCEPT !.ei = TRUE], "")

\* lines 769-816: whole..num/den
parseBaseNotationMixed(baseNumber, isNegative, baseSystem, options) ==
  LET parts == splitStr(baseNumber, "..")
  IN IF Len(parts) # 2 THEN Err("Mixed number notation must have exactly one \"..\" separator")
     ELSE LET wholePart == trim(parts[1])
              fractionPart == trim(parts[2])
          IN IF ~includes(fractionPart, "/")
               THEN Err("Mixed number fractional part must contain \"/\"")
             ELSE IF ~canToDecimal(baseSystem, wholePart)
               THEN Err("Invalid character in base string")
             ELSE LET w == toDecimal(baseSystem, wholePart)
                      wholeRational == IF isNegative THEN QInt(-w) ELSE QInt(w)
                      fractionResult == invoke("parseBaseNotation", <<fractionPart, baseSystem, options>>)
                  IN IF ~fractionResult.ok THEN fractionResult
                     ELSE IF isInterval(fractionResult.value)
                       THEN Err("Mixed number fractional part must be a simple fraction")
                     ELSE LET f == fractionResult.value.lo
                              absF == IF f.n < 0 THEN QNeg(f) ELSE f
                              result == IF wholeRational.n < 0 THEN QSub(wholeRational, absF)
                                        ELSE QAdd(wholeRational, f)
                          IN Ok(invoke("integerIfTypeAware", <<options, result>>), "")

\* lines 819-846: num/den; the quotient is marked _explicitFraction
parseBaseNotationFraction(baseNumber, isNegative, baseSystem, options) ==
  LET parts == splitStr(baseNumber, "/")
  IN IF Len(parts) # 2 THEN Err("Fraction notation must have exactly one \"/\" separator")
     ELSE LET numeratorResult == invoke("parseBaseNotation", <<trim(parts[1]), baseSystem, options>>)
              denominatorResult == invoke("parseBaseNotation", <<trim(parts[2]), baseSystem, options>>)
          IN IF ~numeratorResult.ok THEN numeratorResult
             ELSE IF ~denominatorResult.ok THEN denominatorResult
             ELSE IF denominatorResult.value.lo.n = 0 THEN Err("Denominator cannot be zero")
             ELSE LET quot == QDiv(numeratorResult.value.lo, denominatorResult.value.lo)
                      result == IF isNegative THEN QNeg(quot) ELSE quot
                  IN Ok([newRational(result) EXCEPT !.ef = TRUE], "")

\* lines 849-896: digits.digits
parseBaseNotationDecimal(baseNumber, isNegative, baseSystem, options) ==
  LET parts == splitStr(baseNumber, ".")
  IN IF Len(parts) # 2 THEN Err("Decimal notation must have exactly one \".\" separator")
     ELSE LET integerPart == IF parts[1] = "" THEN "0" ELSE parts[1]
              fractionalPart == parts[2]
          IN IF ~isValidString(baseSystem, integerPart \o fractionalPart)
               THEN Err("String contains characters not valid for base")
             ELSE LET denominator == IPow(baseOf(baseSystem), Len(fractionalPart))
                      totalNumerator == toDecimal(baseSystem, integerPart) * denominator
                                          + toDecimal(baseSystem, fractionalPart)
                      q == Q(totalNumerator, denominator)
                      result == IF isNegative THEN QNeg(q) ELSE q
                  IN Ok(invoke("integerIfTypeAware", <<options, result>>), "")

\* lines 899-915: digits
parseBaseNotationInteger(baseNumber, isNegative, baseSystem, options) ==
  IF ~isValidString(baseSystem, baseNumber)
    THEN Err("String contains characters not valid for base")
  ELSE IF ~canToDecimal(baseSystem, baseNumber) THEN Err("Invalid character in base string")
  ELSE LET d == toDecimal(baseSystem, baseNumber)
           decimalValue == IF isNegative THEN -d ELSE d
       IN IF options.typeAware THEN Ok(newInteger(decimalValue), "")
          ELSE Ok(newRational(QInt(decimalValue)), "")

\* lines 603-915, after the sign and the prefix have been taken off
parseBaseNotationBody(numberStr, isNegative, baseSystem, options) ==
  LET explicitSciIndex == indexOf(numberStr, "_^")
      eIndex == indexOf(toUpperCase(numberStr), "E")
      eNotationType == IF explicitSciIndex # -1 THEN "_^"
                       ELSE IF baseOf(baseSystem) = 10 /\ eIndex # -1 THEN "E"
                       ELSE "none"
      eNotationIndex == IF eNotationType = "_^" THEN explicitSciIndex ELSE eIndex
      exponentStart == eNotationIndex + (IF eNotationType = "_^" THEN 2 ELSE 1)
      rawExponentStr == substringFrom(numberStr, exponentStart)
      baseNumber == normalizeCase(baseSystem,
                      IF eNotationType # "none" THEN substring(numberStr, 0, eNotationIndex)
                      ELSE numberStr)
  IN IF eNotationType # "none"
       THEN IF ~isValidString(baseSystem, removeFirst(rawExponentStr, "-"))
              THEN Err("Invalid exponent for base")
            ELSE invoke("parseBaseNotationENotation", <<baseNumber, normalizeCase(baseSystem, rawExponentStr),
                                            isNegative, baseSystem, options>>)
     ELSE IF includes(baseNumber, ":")
       THEN invoke("parseBaseNotationInterval", <<baseNumber, isNegative, baseSystem, options>>)
     ELSE IF includes(baseNumber, "..")
       THEN invoke("parseBaseNotationMixed", <<baseNumber, isNegative, baseSystem, options>>)
     ELSE IF includes(baseNumber, "/")
       THEN invoke("parseBaseNotationFraction", <<baseNumber, isNegative, baseSystem, options>>)
     ELSE IF includes(baseNumber, ".")
       THEN invoke("parseBaseNotationDecimal", <<baseNumber, isNegative, baseSystem, options>>)
     ELSE invoke("parseBaseNotationInteger", <<baseNumber, isNegative, baseSystem, options>>)

\* lines 564-601: deprecated bracket check, sign, 0<letter> prefix
parseBaseNotation(numberStr0, baseSystem0, options) ==
  IF deprecatedBracketSuffix(numberStr0)
    THEN Err("Bracket base notation (Value[Base]) is no longer supported")
  ELSE LET isNegative == startsWith(numberStr0, "-")
           numberStr1 == IF isNegative THEN substringFrom(numberStr0, 1) ELSE numberStr0
           prefixMatch == charAt(numberStr1, 0) = "0" /\ isLetter(charAt(numberStr1, 1))
           prefix == charAt(numberStr1, 1)
           registeredBase == getSystemForPrefix(options.prefixes, prefix)
       IN IF prefixMatch /\ registeredBase # NoBase
            THEN invoke("parseBaseNotationBody", <<substringFrom(numberStr1, 2), isNegative, registeredBase, options>>)
          ELSE IF prefixMatch /\ prefix = "D"
            THEN invoke("parseBaseNotationBody", <<substringFrom(numberStr1, 2), isNegative, baseSystem0, options>>)
          ELSE IF prefixMatch /\ toLowerCase(prefix) # "e"
            THEN Err("Invalid or unregistered prefix")
          ELSE invoke("parseBaseNotationBody", <<numberStr1, isNegative, baseSystem0, options>>)

\* ------------------------------------------------------------------------
\* Decimal literals: repeating decimals, rounding intervals of plain
\* decimals, uncertainty brackets
\* ------------------------------------------------------------------------

\* /^\d*$/ and /^\d+$/
allDigits(s) == allIn(s, DigitChars)

someDigits(s) == s # "" /\ allDigits(s)

\* BigInt(digits)
bigInt(s) == digitsValue(DECIMAL, s, 0)

\* the non-empty pieces of s between runs of separator characters
tokens(s, seps) == SelectSeq(splitOn(s, seps), LAMBDA piece : piece # "")

\* lines 475-524
parseNonRepeatingDecimal(str, isNegative) ==
  LET decimalParts == splitStr(str, ".")
      integerPart == IF decimalParts[1] = "" THEN "0" ELSE decimalParts[1]
      fractionalPart == IF Len(decimalParts) > 1 THEN decimalParts[2] ELSE ""
  IN IF Len(decimalParts) > 2 THEN Err("Invalid decimal format - multiple decimal points")
     ELSE IF ~someDigits(integerPart) \/ ~allDigits(fractionalPart)
       THEN Err("Decimal must contain only digits and at most one decimal point")
     ELSE IF fractionalPart = ""
       THEN Ok(newRational(QInt(IF isNegative THEN -bigInt(integerPart) ELSE bigInt(integerPart))), "")
     ELSE LET lastDigitPlace == IPow(10, Len(fractionalPart) + 1)
              baseValue == bigInt(integerPart \o fractionalPart)
              lower == IF isNegative THEN Q(-(baseValue * 10 + 5), lastDigitPlace)
                       ELSE Q(baseValue * 10 - 5, lastDigitPlace)
              upper == IF isNegative THEN Q(-(baseValue * 10 - 5), lastDigitPlace)
                       ELSE Q(baseValue * 10 + 5, lastDigitPlace)
          IN Ok(newRationalInterval(lower, upper), "")


\* lines 533-553
parseRepeatingDecimalInterval(str, options) ==
  LET parts == splitStr(str, ":")
  IN IF Len(parts) # 2 THEN Err("Invalid interval format")
     ELSE LET leftEndpoint == invoke("parseRepeatingDecimal", <<trim(parts[1]), options>>)
              rightEndpoint == invoke("parseRepeatingDecimal", <<trim(parts[2]), options>>)
          IN IF ~leftEndpoint.ok THEN leftEndpoint
             ELSE IF ~rightEndpoint.ok THEN rightEndpoint
             ELSE IF isInterval(leftEndpoint.value) \/ isInterval(rightEndpoint.value)
               THEN Err("Nested intervals are not supported")
             ELSE Ok(newRationalInterval(leftEndpoint.value.lo, rightEndpoint.value.lo), "")

\* lines 376-464: the text has a "#"
parseRepeatingDecimalHash(str, isNegative) ==
  LET parts == splitStr(str, "#")
      nonRepeatingPart == parts[1]
      repeatingPart == parts[2]
      decimalParts == splitStr(nonRepeatingPart, ".")
      integerPart == IF decimalParts[1] = "" THEN "0" ELSE decimalParts[1]
      fractionalPart == IF Len(decimalParts) > 1 THEN decimalParts[2] ELSE ""
      sign == IF isNegative THEN -1 ELSE 1
  IN IF Len(parts) # 2 THEN Err("Invalid repeating decimal format")
     ELSE IF ~someDigits(repeatingPart) THEN Err("Repeating part must contain only digits")
     ELSE IF Len(decimalParts) > 2 THEN Err("Invalid decimal format - multiple decimal points")
     ELSE IF ~allDigits(integerPart) \/ ~allDigits(fractionalPart)
       THEN Err("Non-repeating part must contain only digits and at most one decimal point")
     ELSE IF repeatingPart = "0"
       THEN Ok(newRational(Q(sign * bigInt(integerPart \o fractionalPart),
                             IPow(10, Len(fractionalPart)))), "")
     ELSE LET abc == bigInt(integerPart \o fractionalPart \o repeatingPart)
              ab == bigInt(integerPart \o fractionalPart)
              denominator == IPow(10, Len(fractionalPart)) * (IPow(10, Len(repeatingPart)) - 1)
          IN Ok(newRational(Q(sign * (abc - ab), denominator)), "")

\* lines 348-374
parseRepeatingDecimal(str0, options) ==
  LET str == trim(str0)
      isNegative == startsWith(str, "-")
      body == IF isNegative THEN substringFrom(str, 1) ELSE str
  IN IF str0 = "" THEN Err("Input must be a non-empty string")
     ELSE IF includes(str, "[") /\ includes(str, "]")
       THEN invoke("parseDecimalUncertainty", <<str, [options EXCEPT !.allowIntegerRangeNotation = FALSE,
                                                         !.inputBase = NoBase,
                                                         !.typeAware = FALSE]>>)
     ELSE IF includes(str, ":") THEN invoke("parseRepeatingDecimalInterval", <<str, options>>)
     ELSE IF ~includes(body, "#") THEN invoke("parseNonRepeatingDecimal", <<body, isNegative>>)
     ELSE invoke("parseRepeatingDecimalHash", <<body, isNegative>>)

\* lines 288-339; parseBaseNotation is called without options here
parseRepeatingDecimalOrRegular(str, baseSystem, options) ==
  IF includes(str, "#")
    THEN LET explicitSciIndex == indexOf(str, "_^")
             eIndex == indexOf(toUpperCase(str), "E")
             eNotationType == IF explicitSciIndex # -1 THEN "_^"
                              ELSE IF baseOf(baseSystem) = 10 /\ eIndex # -1 THEN "E"
                              ELSE "none"
             eNotationIndex == IF eNotationType = "_^" THEN explicitSciIndex ELSE eIndex
             repeatingPart == substring(str, 0, eNotationIndex)
             exponentPart == substringFrom(str, eNotationIndex + (IF eNotationType = "_^" THEN 2 ELSE 1))
             expNeg == startsWith(exponentPart, "-")
             absExponentPart == IF expNeg THEN substringFrom(exponentPart, 1) ELSE exponentPart
             baseValue == invoke("parseRepeatingDecimal", <<repeatingPart, options>>)
             scaleBaseNum == IF eNotationType = "E" THEN 10 ELSE baseOf(baseSystem)
         IN IF eNotationType = "none" THEN invoke("parseRepeatingDecimal", <<str, options>>)
            ELSE IF ~isValidString(baseSystem, absExponentPart)
              THEN Err("notation exponent must be a valid integer in base")
            ELSE IF ~baseValue.ok THEN baseValue
            ELSE IF absExponentPart = "" THEN Err("Invalid character in base string")
            ELSE LET e == toDecimal(baseSystem, absExponentPart)
                     scale == IF expNeg THEN Q(1, IPow(scaleBaseNum, e)) ELSE QInt(IPow(scaleBaseNum, e))
                 IN multiply(baseValue.value, newRational(scale))
  ELSE invoke("parseBaseNotation", <<str, baseSystem, [options EXCEPT !.typeAware = FALSE]>>)

WordChars == DigitChars \o LowerLetters \o UpperLetters \o "_"

\* the length of the optional exponent suffix
\*   (?:[Ee][+-]?[\w]+|\_?\^-?[\w]+)?
\* at the start of rest (0 when there is none)
sciSuffixLength(rest) ==
  LET c0 == charAt(rest, 0)
      eSign == IF charAt(rest, 1) = "+" \/ charAt(rest, 1) = "-" THEN 2 ELSE 1
      eEnd == scanWhile(rest, eSign, WordChars)
      caret == IF c0 = "_" THEN 1 ELSE 0
      cSign == IF charAt(rest, caret + 1) = "-" THEN caret + 2 ELSE caret + 1
      cEnd == scanWhile(rest, cSign, WordChars)
  IN IF (c0 = "E" \/ c0 = "e") /\ eEnd > eSign THEN eEnd
     ELSE IF charAt(rest, caret) = "^" /\ cEnd > cSign THEN cEnd
     ELSE 0

\* /^(-?[@\w./:^]+)\[([^\]]+)\]((?:[Ee][+-]?[\w]+|\_?\^-?[\w]+)?)/ ,
\* with a closing $ when anchored
uncertaintyMatch(str, anchored) ==
  LET start == IF startsWith(str, "-") THEN 1 ELSE 0
      runEnd == scanWhile(str, start, WordChars \o "@./:^")
      close == indexOfFrom(str, "]", runEnd + 1)
      rest == substringFrom(str, close + 1)
      suffix == sciSuffixLength(rest)
      matched == /\ runEnd > start
                 /\ charAt(str, runEnd) = "["
                 /\ close >= runEnd + 2
                 /\ (anchored => suffix = Len(rest))
  IN [matched |-> matched,
      baseStr |-> IF matched THEN substring(str, 0, runEnd) ELSE "",
      uncertaintyStr |-> IF matched THEN substring(str, runEnd + 1, close) ELSE "",
      trailingPart |-> IF matched THEN substring(rest, 0, suffix) ELSE "",
      length |-> IF matched THEN close + 1 + suffix ELSE 0]

\* lines 267-286
parseDecimalPointEndpoint(baseStr, endpointStr, baseSystem, options) ==
  IF startsWith(endpointStr, "#") THEN invoke("parseRepeatingDecimal", <<baseStr \o endpointStr, options>>)
  ELSE LET result == invoke("parseBaseNotation", <<baseStr \o endpointStr, baseSystem,
                                       [options EXCEPT !.typeAware = TRUE]>>)
       IN IF result.ok THEN result ELSE Err("Invalid endpoint format")

\* lines 241-265
parseDecimalPointUncertainty(baseStr, uncertaintyStr, baseSystem, options) ==
  IF includes(uncertaintyStr, ",") \/ includes(uncertaintyStr, ":")
    THEN LET rangeParts == tokens(uncertaintyStr, ": ,")
         IN IF Len(rangeParts) # 2
              THEN Err("Range notation must have exactly two values separated by colon or comma")
            ELSE LET lowerBound == invoke("parseDecimalPointEndpoint", <<baseStr, trim(rangeParts[1]), baseSystem, options>>)
                     upperBound == invoke("parseDecimalPointEndpoint", <<baseStr, trim(rangeParts[2]), baseSystem, options>>)
                 IN IF ~lowerBound.ok THEN lowerBound
                    ELSE IF ~upperBound.ok THEN upperBound
                    ELSE IF isInterval(lowerBound.value) \/ isInterval(upperBound.value)
                      THEN Err("RationalInterval endpoints must be numbers")
                    ELSE Ok(newRationalInterval(lowerBound.value.lo, upperBound.value.lo), "")
  ELSE Err("Invalid uncertainty format for decimal point notation")

\* /^(-?[\w./:^]+\.)$/
afterDecimalMatch(baseStr) ==
  LET start == IF startsWith(baseStr, "-") THEN 1 ELSE 0
  IN /\ Len(baseStr) - start >= 2
     /\ endsWith(baseStr, ".")
     /\ allIn(substringFrom(baseStr, start), WordChars \o "./:^")

\* the length of the capture of /\.([\w^/_]+)$/ (0 when there is no match)
baseDecimalPlacesOf(baseStr) ==
  LET dot == lastIndexOf(baseStr, ".")
      tail == substringFrom(baseStr, dot + 1)
  IN IF dot >= 0 /\ tail # "" /\ allIn(tail, WordChars \o "^/") THEN Len(tail) ELSE 0

\* lines 115 and 184
hasConfusingENotation(baseStr, inputBase) ==
  \/ baseOf(inputBase) = 10 /\ (includes(baseStr, "E") \/ includes(baseStr, "e"))
  \/ includes(baseStr, "_^")

\* lines 120-126
isValidForBase(inputBase, s) ==
  \/ isValidString(inputBase, removeFirst(s, "."))
  \/ baseOf(inputBase) <= 36 /\ isValidString(inputBase, toLowerCase(removeFirst(s, ".")))

\* a scale that leaves every offset as it is written
unitScale(inputBase, scalePower) == Q(1, 1)

\* 1 / base^scalePower
placeScale(inputBase, scalePower) == Q(1, IPow(baseOf(inputBase), scalePower))

\* lines 92-143: base[lo,hi] appends digit runs to the base text
uncertaintyRange(baseStr, uncertaintyStr, baseDecimalPlaces, inputBase, options) ==
  LET rangeParts == tokens(uncertaintyStr, ": ,")
      typed == [options EXCEPT !.typeAware = TRUE]
  IN IF baseDecimalPlaces = 0 /\ ~options.allowIntegerRangeNotation
       THEN Err("Range notation on integer bases is not supported in this context")
     ELSE IF Len(rangeParts) # 2
       THEN Err("Range notation must have exactly two values separated by colon or comma")
     ELSE IF hasConfusingENotation(baseStr, inputBase)
       THEN Err("Uncertainty notation cannot be used with scientific notation in the base value")
     ELSE IF ~isValidForBase(inputBase, trim(rangeParts[1])) \/ ~isValidForBase(inputBase, trim(rangeParts[2]))
       THEN Err("Range values must be valid for base")
     ELSE LET lowerBoundResult == invoke("parseBaseNotation", <<baseStr \o trim(rangeParts[1]), inputBase, typed>>)
              upperBoundResult == invoke("parseBaseNotation", <<baseStr \o trim(rangeParts[2]), inputBase, typed>>)
          IN IF ~lowerBoundResult.ok THEN lowerBoundResult
             ELSE IF ~upperBoundResult.ok THEN upperBoundResult
             ELSE IF isInterval(lowerBoundResult.value) \/ isInterval(upperBoundResult.value)
               THEN Err("RationalInterval endpoints must be numbers")
             ELSE Ok(newRationalInterval(lowerBoundResult.value.lo, upperBoundResult.value.lo), "")

\* the interval [baseValue - down, baseValue + up] of lines 161-174 and
\* 213-235; the offsets are scaled to the place after the last written digit
\* unless the base text is a whole number
uncertaintyAround(baseStr, baseValue, up, upRepeating, down, downRepeating,
                  baseDecimalPlaces, inputBase) ==
  LET upScale == IF upRepeating THEN baseDecimalPlaces ELSE baseDecimalPlaces + 1
      downScale == IF downRepeating THEN baseDecimalPlaces ELSE baseDecimalPlaces + 1
      whole == baseDecimalPlaces = 0 /\ ~includes(baseStr, ".")
      scaledUp == IF whole THEN up.lo ELSE QMul(up.lo, placeScale(inputBase, upScale))
      scaledDown == IF whole THEN down.lo ELSE QMul(down.lo, placeScale(inputBase, downScale))
  IN IF isInterval(baseValue) \/ isInterval(up) \/ isInterval(down)
       THEN Err("RationalInterval endpoints must be numbers")
     ELSE Ok(newRationalInterval(QSub(baseValue.lo, scaledDown), QAdd(baseValue.lo, scaledUp)), "")

\* lines 145-174: base[+-offset]
uncertaintySymmetric(baseStr, uncertaintyStr, baseValue, baseDecimalPlaces, inputBase, options) ==
  LET offsetStr == substringFrom(uncertaintyStr, 2)
      isRepeating == startsWith(offsetStr, "#")
      offset == invoke("parseRepeatingDecimalOrRegular", <<offsetStr, inputBase, options>>)
  IN IF offsetStr = "" THEN Err("Symmetric notation must have a valid number after +- or -+")
     ELSE IF ~offset.ok THEN offset
     ELSE uncertaintyAround(baseStr, baseValue, offset.value, isRepeating, offset.value, isRepeating,
                            baseDecimalPlaces, inputBase)

\* lines 175-236: base[+up,-down]
uncertaintyRelative(baseStr, uncertaintyStr, baseValue, baseDecimalPlaces, inputBase, options) ==
  LET relativeParts == tokens(uncertaintyStr, ": ,")
      isSigned(p) == startsWith(p, "+") \/ startsWith(p, "-")
      plus == SelectSeq(relativeParts, LAMBDA p : startsWith(p, "+"))
      minus == SelectSeq(relativeParts, LAMBDA p : startsWith(p, "-"))
      offsetOf(parts) == IF parts = <<>> THEN Ok(newInteger(0), "")
                         ELSE invoke("parseRepeatingDecimalOrRegular", <<substringFrom(parts[1], 1), inputBase, options>>)
      repeatingOf(parts) == parts # <<>> /\ startsWith(substringFrom(parts[1], 1), "#")
  IN IF Len(relativeParts) > 2 \/ Len(relativeParts) = 0
       THEN Err("Relative notation must have one or two values separated by colon or comma")
     ELSE IF hasConfusingENotation(baseStr, inputBase)
       THEN Err("Uncertainty notation cannot be used with scientific notation in the base value")
     ELSE IF \E i \in 1..Len(relativeParts) : ~isSigned(relativeParts[i])
       THEN Err("Relative notation values must start with + or -")
     ELSE IF Len(plus) > 1 THEN Err("Only one positive offset allowed")
     ELSE IF Len(minus) > 1 THEN Err("Only one negative offset allowed")
     ELSE IF \E i \in 1..Len(relativeParts) : Len(relativeParts[i]) = 1
       THEN Err("Offset must be a valid number")
     ELSE IF ~offsetOf(plus).ok THEN offsetOf(plus)
     ELSE IF ~offsetOf(minus).ok THEN offsetOf(minus)
     ELSE uncertaintyAround(baseStr, baseValue, offsetOf(plus).value, repeatingOf(plus),
                            offsetOf(minus).value, repeatingOf(minus), baseDecimalPlaces, inputBase)

\* lines 63-69: the exponent suffix after the bracket multiplies the interval
finalize(interval, trailingPart, inputBase, options) ==
  IF ~interval.ok \/ trailingPart = "" THEN interval
  ELSE LET multiplier == invoke("parseRepeatingDecimalOrRegular", <<"1" \o trailingPart, inputBase, options>>)
       IN IF ~multiplier.ok THEN multiplier ELSE multiply(interval.value, multiplier.value)

\* lines 49-239
parseDecimalUncertainty(str, options) ==
  LET inputBase == IF options.inputBase = NoBase THEN DECIMAL ELSE options.inputBase
      m == uncertaintyMatch(str, TRUE)
      baseStr == m.baseStr
      uncertaintyStr == m.uncertaintyStr
      baseValue == invoke("parseBaseNotation", <<baseStr, inputBase, [options EXCEPT !.typeAware = TRUE]>>)
      baseDecimalPlaces == baseDecimalPlacesOf(baseStr)
  IN IF ~m.matched THEN Err("Invalid uncertainty format")
     ELSE IF afterDecimalMatch(baseStr) /\ ~includes(uncertaintyStr, "+") /\ ~includes(uncertaintyStr, "-")
       THEN invoke("finalize", <<invoke("parseDecimalPointUncertainty", <<baseStr, uncertaintyStr, inputBase, options>>),
                     m.trailingPart, inputBase, options>>)
     ELSE IF ~baseValue.ok THEN baseValue
     ELSE IF /\ includes(uncertaintyStr, ",") \/ includes(uncertaintyStr, ":")
             /\ ~includes(uncertaintyStr, "+")
             /\ ~includes(uncertaintyStr, "-")
       THEN invoke("finalize", <<invoke("uncertaintyRange", <<baseStr, uncertaintyStr, baseDecimalPlaces, inputBase, options>>),
                     m.trailingPart, inputBase, options>>)
     ELSE IF startsWith(uncertaintyStr, "+-") \/ startsWith(uncertaintyStr, "-+")
       THEN invoke("finalize", <<invoke("uncertaintySymmetric", <<baseStr, uncertaintyStr, baseValue.value,
                                          baseDecimalPlaces, inputBase, options>>),
                     m.trailingPart, inputBase, options>>)
     ELSE invoke("finalize", <<invoke("uncertaintyRelative", <<baseStr, uncertaintyStr, baseValue.value,
                                       baseDecimalPlaces, inputBase, options>>),
                   m.trailingPart, inputBase, options>>)

\* ------------------------------------------------------------------------
\* Parser: promotion, exponents, E notation
\* ------------------------------------------------------------------------

\* options.inputBase && options.inputBase !== BaseSystem.DECIMAL
hasInputBase(options) == options.inputBase # NoBase /\ options.inputBase # DECIMAL

\* lines 2395-2431.  The enclosure returned by a transcendental routine is
\* not a point.
promoteType(value, options) ==
  IF ~options.typeAware THEN value
  ELSE IF value.sp THEN value
  ELSE IF isInterval(value) /\ ~value.tr /\ isPoint(value)
    THEN IF value.ei THEN value
         ELSE IF value.lo.d = 1 THEN newInteger(value.lo.n)
         ELSE newRational(value.lo)
  ELSE IF isRational(value) /\ value.lo.d = 1
    THEN IF value.ef THEN value ELSE newInteger(value.lo.n)
  ELSE value

\* a bare bigint, as returned by parseExponent: it is an instance of none
\* of the numeric classes
bigIntValue(k) == mkValue("bigint", QInt(k), QInt(k))

isBigInt(v) == v.t = "bigint"

\* lines 2349-2383
parseExponent(expr) ==
  LET isNegative == charAt(expr, 0) = "-"
      start == IF isNegative THEN 1 ELSE 0
      i == scanWhile(expr, start, DigitChars)
      exponentStr == substring(expr, start, i)
      exponent == IF isNegative THEN -bigInt(exponentStr) ELSE bigInt(exponentStr)
  IN IF exponentStr = "" THEN Err("Invalid exponent")
     ELSE IF exponent = 0 THEN Err("Multiplicative exponentiation requires at least one factor")
     ELSE Ok(bigIntValue(exponent), substringFrom(expr, i))

\* lines 2495-2596
parseBaseAwareENotation(value, expr, options) ==
  LET baseSystem == options.inputBase
      isCaret == startsWith(expr, "_^")
      isE == baseOf(baseSystem) = 10 /\ (startsWith(expr, "E") \/ startsWith(expr, "e"))
      startIndex == IF isCaret THEN 2 ELSE 1
      isNegative == charAt(expr, startIndex) = "-"
      digitsStart == IF isNegative THEN startIndex + 1 ELSE startIndex
      endIndex == scanWhile(expr, digitsStart, baseSystem.characters)
      digits == substring(expr, digitsStart, endIndex)
  IN IF baseSystem = NoBase THEN Err("Base-aware E notation requires inputBase option")
     ELSE IF ~isCaret /\ ~isE
       THEN IF baseOf(baseSystem) = 10 THEN Err("Expected E or _^ notation")
            ELSE Err("Scientific notation in non-decimal bases requires _^ separator (e.g. 5_^2)")
     ELSE IF digits = "" THEN Err("Missing exponent after notation")
     ELSE IF isInterval(value) \/ isBigInt(value)
       THEN Err("notation can only be applied to simple numbers, not intervals")
     ELSE LET e == toDecimal(baseSystem, digits)
              powerOfBase == IF isNegative THEN Q(1, IPow(baseOf(baseSystem), e))
                             ELSE QInt(IPow(baseOf(baseSystem), e))
          IN Ok(invoke("promoteType", <<newRational(QMul(value.lo, powerOfBase)), options>>),
                substringFrom(expr, endIndex))

\* scientific notation that is always read in base 10
parseENotationInDecimal(value, expr, options) ==
  LET startIndex == IF startsWith(expr, "TE") THEN 2
                    ELSE IF charAt(expr, 0) = "E" THEN 1
                    ELSE IF startsWith(expr, "_^") THEN 2
                    ELSE -1
      exponentResult == invoke("parseExponent", <<substringFrom(expr, startIndex)>>)
  IN IF startIndex < 0 THEN Err("Expected E notation")
     ELSE IF ~exponentResult.ok THEN exponentResult
     ELSE Ok(invoke("promoteType", <<applyE(value, exponentResult.value.lo.n), options>>), exponentResult.rem)

\* lines 2438-2488
parseENotation(value, expr, options) ==
  IF hasInputBase(options) THEN invoke("parseBaseAwareENotation", <<value, expr, options>>)
  ELSE LET startIndex == IF startsWith(expr, "TE") THEN 2
                         ELSE IF charAt(expr, 0) = "E" THEN 1
                         ELSE IF startsWith(expr, "_^") THEN 2
                         ELSE -1
           exponentResult == invoke("parseExponent", <<substringFrom(expr, startIndex)>>)
       IN IF startIndex < 0 THEN Err("Expected E notation")
          ELSE IF ~exponentResult.ok THEN exponentResult
          ELSE Ok(invoke("promoteType", <<applyE(value, exponentResult.value.lo.n), options>>), exponentResult.rem)

\* ------------------------------------------------------------------------
\* parseRational: one number (integer, fraction, mixed number, decimal,
\* repeating decimal, prefixed or input-base literal)
\* ------------------------------------------------------------------------

\* "no result here, try the next form": the fall-through of a branch
NoResult == [ok |-> FALSE, value |-> NoValue, rem |-> "", err |-> "<fall through>"]

\* charMap.has(char), with the case normalisation of lines 3130-3159
isValidCharNormalized(baseSystem, c) ==
  \/ isValidChar(baseSystem, c)
  \/ /\ usesLowercase(baseSystem) /\ ~usesUppercase(baseSystem) /\ isUpper(c)
     /\ isValidChar(baseSystem, charToLower(c))
  \/ /\ usesUppercase(baseSystem) /\ ~usesLowercase(baseSystem) /\ isLower(c)
     /\ isValidChar(baseSystem, charToUpper(c))

\* lines 3126-3230: the extent of the text that could be a number in the
\* input base
RECURSIVE scanBaseNumber(_, _, _)
scanBaseNumber(expr, st, options) ==
  LET i == st.endIndex
      char == charAt(expr, i)
      next == charAt(expr, i + 1)
      subPrefix == i + 2 < Len(expr) /\ next = "0" /\ isLetter(charAt(expr, i + 2))
      prefixChar == charAt(expr, i + 2)
      subBase == getSystemForPrefix(options.prefixes, prefixChar)
      afterMark == i + (IF char = "_" THEN 2 ELSE 1)
      afterSign == IF charAt(expr, afterMark) = "+" \/ charAt(expr, afterMark) = "-"
                   THEN afterMark + 1 ELSE afterMark
  IN IF i >= Len(expr) THEN st
     ELSE IF isValidCharNormalized(st.validationBase, char)
       THEN scanBaseNumber(expr, [st EXCEPT !.endIndex = i + 1], options)
     ELSE IF char = "." /\ next = "."
       THEN IF st.hasMixedNumber \/ st.hasDecimalPoint \/ st.hasFraction THEN st
            ELSE scanBaseNumber(expr, [st EXCEPT !.hasMixedNumber = TRUE, !.endIndex = i + 2], options)
     ELSE IF char = "." /\ ~st.hasDecimalPoint /\ ~st.hasMixedNumber
       THEN scanBaseNumber(expr, [st EXCEPT !.hasDecimalPoint = TRUE, !.endIndex = i + 1], options)
     ELSE IF char = "/" /\ ~st.hasFraction
       THEN IF i + 1 < Len(expr) /\ ~isValidChar(st.validationBase, next) THEN st
            ELSE IF subPrefix /\ (subBase # NoBase \/ prefixChar = "D")
              THEN scanBaseNumber(expr,
                     [st EXCEPT !.hasFraction = TRUE, !.endIndex = i + 3,
                                !.validationBase = IF subBase # NoBase THEN subBase ELSE @],
                     options)
            ELSE scanBaseNumber(expr, [st EXCEPT !.hasFraction = TRUE, !.endIndex = i + 1], options)
     ELSE IF (char = "E" \/ char = "e") /\ includes(st.validationBase.characters, charToUpper(char))
       THEN scanBaseNumber(expr, [st EXCEPT !.endIndex = i + 1], options)
     ELSE IF (char = "E" /\ ~options.disableENotation) \/ (char = "_" /\ next = "^")
       THEN scanBaseNumber(expr, [st EXCEPT !.endIndex = afterSign], options)
     ELSE st

\* lines 3252-3305: every piece between "." and "/" is written in the
\* digits of the input base
partsValidInBase(testStr, baseSystem) ==
  LET parts == splitOn(testStr, "./")
  IN \A index \in 1..Len(parts) :
       IF parts[index] = ""
         THEN includes(testStr, ".") /\ (index = 1 \/ index = Len(parts) \/ includes(testStr, ".."))
       ELSE \A k \in 0..(Len(parts[index]) - 1) : isValidCharNormalized(baseSystem, charAt(parts[index], k))

\* lines 3106-3327
parseRationalInBase(expr, isExplicitPrefix, options) ==
  LET first == IF charAt(expr, 0) = "-" THEN 1 ELSE 0
      st == scanBaseNumber(expr,
              [endIndex |-> first, hasDecimalPoint |-> FALSE, hasMixedNumber |-> FALSE,
               hasFraction |-> FALSE, validationBase |-> options.inputBase],
              options)
      endIndex == st.endIndex
      numberStr == substring(expr, 0, endIndex)
      testStr == IF startsWith(numberStr, "-") THEN substringFrom(numberStr, 1) ELSE numberStr
      result == invoke("parseBaseNotation", <<numberStr, options.inputBase, options>>)
  IN IF ~hasInputBase(options) \/ includes(expr, "[") \/ includes(expr, "#") THEN NoResult
     ELSE IF isExplicitPrefix /\ endIndex <= first THEN Err("Invalid number format for base")
     ELSE IF endIndex <= first THEN NoResult
     ELSE IF ~isExplicitPrefix /\ ~partsValidInBase(testStr, options.inputBase) THEN NoResult
     ELSE IF result.ok THEN Ok(result.value, substringFrom(expr, endIndex))
     ELSE IF isExplicitPrefix THEN result
     ELSE NoResult

\* /^-?(\d+\.?\d*|\.\d+)$/
looksLikeDecimal(s) ==
  LET body == IF startsWith(s, "-") THEN substringFrom(s, 1) ELSE s
      intEnd == scanWhile(body, 0, DigitChars)
      afterDot == IF charAt(body, intEnd) = "." THEN intEnd + 1 ELSE intEnd
      fracEnd == scanWhile(body, afterDot, DigitChars)
  IN /\ fracEnd = Len(body)
     /\ \/ intEnd > 0
        \/ intEnd = 0 /\ afterDot = 1 /\ fracEnd > 1

\* lines 3330-3366
parseRationalRepeating(expr, options) ==
  LET hashIndex == indexOf(expr, "#")
      endIndex == scanWhile(expr, hashIndex + 1, DigitChars)
      result == invoke("parseRepeatingDecimal", <<substring(expr, 0, endIndex), options>>)
  IN IF hashIndex = -1 \/ ~looksLikeDecimal(substring(expr, 0, hashIndex)) THEN NoResult
     ELSE IF ~result.ok THEN Err("Invalid repeating decimal")
     ELSE IF isInterval(result.value)
       THEN Ok(newRational(QDiv(QAdd(result.value.lo, result.value.hi), QInt(2))),
               substringFrom(expr, endIndex))
     ELSE Ok(result.value, substringFrom(expr, endIndex))

\* lines 3385-3399: digits with at most one "." that is followed by
\* something other than "."
RECURSIVE scanDecimal(_, _, _)
scanDecimal(expr, i, hasDecimalPoint) ==
  IF i < Len(expr) /\ isDigit(charAt(expr, i)) THEN scanDecimal(expr, i + 1, hasDecimalPoint)
  ELSE IF /\ charAt(expr, i) = "." /\ ~hasDecimalPoint
          /\ i + 1 < Len(expr) /\ charAt(expr, i + 1) # "."
    THEN scanDecimal(expr, i + 1, TRUE)
  ELSE [endIndex |-> i, hasDecimalPoint |-> hasDecimalPoint]

\* new Rational("12.5"): the exact value of a decimal string
rationalFromDecimalString(decimalStr) ==
  LET isNegative == startsWith(decimalStr, "-")
      body == IF isNegative THEN substringFrom(decimalStr, 1) ELSE decimalStr
      parts == splitStr(body, ".")
      fractionalPart == IF Len(parts) > 1 THEN parts[2] ELSE ""
      q == Q(bigInt(parts[1] \o fractionalPart), IPow(10, Len(fractionalPart)))
  IN newRational(IF isNegative THEN QNeg(q) ELSE q)

\* lines 3369-3413
parseRationalDecimal(expr) ==
  LET decimalIndex == indexOf(expr, ".")
      first == IF charAt(expr, 0) = "-" THEN 1 ELSE 0
      st == scanDecimal(expr, first, FALSE)
  IN IF /\ decimalIndex # -1
        /\ decimalIndex + 1 < Len(expr)
        /\ charAt(expr, decimalIndex + 1) # "."
        /\ st.hasDecimalPoint
        /\ st.endIndex > first + 1
       THEN Ok(rationalFromDecimalString(substring(expr, 0, st.endIndex)), substringFrom(expr, st.endIndex))
     ELSE NoResult

\* lines 3415-3568: decimal integer, a/b, w..a/b
parseRationalFraction(expr) ==
  LET isNegative == charAt(expr, 0) = "-"
      i0 == IF isNegative THEN 1 ELSE 0
      i1 == scanWhile(expr, i0, DigitChars)
      firstStr == substring(expr, i0, i1)
      hasMixedForm == i1 + 1 < Len(expr) /\ charAt(expr, i1) = "." /\ charAt(expr, i1 + 1) = "."
      wholePart == IF isNegative THEN -bigInt(firstStr) ELSE bigInt(firstStr)
      i2 == IF hasMixedForm THEN i1 + 2 ELSE i1
      i3 == IF hasMixedForm THEN scanWhile(expr, i2, DigitChars) ELSE i1
      numeratorStr == IF hasMixedForm THEN substring(expr, i2, i3) ELSE firstStr
      explicitFraction == charAt(expr, i3) = "/"
      i4 == i3 + 1
      i5 == scanWhile(expr, i4, DigitChars)
      denominatorStr == IF explicitFraction THEN substring(expr, i4, i5) ELSE "1"
      i == IF explicitFraction THEN i5 ELSE i3
      simpleNumerator == IF isNegative THEN -bigInt(numeratorStr) ELSE bigInt(numeratorStr)
      denominator == bigInt(denominatorStr)
      numerator == IF hasMixedForm
                     THEN (IF wholePart < 0 THEN -1 ELSE 1) * (Abs(wholePart) * denominator + bigInt(numeratorStr))
                   ELSE simpleNumerator
  IN IF firstStr = "" THEN Err("Invalid rational number format")
     ELSE IF hasMixedForm /\ numeratorStr = ""
       THEN Err("Invalid mixed number format: missing numerator after \"..\"")
     ELSE IF explicitFraction /\ (charAt(expr, i4) = "S" \/ charAt(expr, i4) = "(")
       THEN IF hasMixedForm THEN Err("Invalid mixed number format: missing denominator")
            ELSE Ok(newRational(QInt(simpleNumerator)), substringFrom(expr, i3))
     ELSE IF explicitFraction /\ denominatorStr = "" THEN Err("Invalid rational number format")
     ELSE IF explicitFraction /\ charAt(expr, i5) = "E"
       THEN Err("E notation not allowed directly after fraction without parentheses")
     ELSE IF ~explicitFraction /\ hasMixedForm THEN Err("Invalid mixed number format: missing denominator")
     ELSE IF hasMixedForm /\ charAt(expr, i) = "E"
       THEN Err("E notation not allowed directly after mixed number without parentheses")
     ELSE IF denominator = 0 THEN Err("Denominator cannot be zero")
     ELSE Ok([newRational(Q(numerator, denominator))
                EXCEPT !.ef = explicitFraction /\ denominator = 1],
             substringFrom(expr, i))

\* lines 3329-3568: the decimal forms, tried in order
parseRationalDecimalForms(expr, options) ==
  LET repeating == invoke("parseRationalRepeating", <<expr, options>>)
      decimal == invoke("parseRationalDecimal", <<expr>>)
  IN IF repeating # NoResult THEN repeating
     ELSE IF decimal # NoResult THEN decimal
     ELSE invoke("parseRationalFraction", <<expr>>)

\* lines 3069-3568
parseRational(expr0, options0) ==
  LET expr1 == trim(expr0)
      isNegative == startsWith(expr1, "-")
      at == IF isNegative THEN 1 ELSE 0
      prefixMatch == charAt(expr1, at) = "0" /\ isLetter(charAt(expr1, at + 1))
      prefix == charAt(expr1, at + 1)
      registeredBase == getSystemForPrefix(options0.prefixes, prefix)
      stripped == (IF isNegative THEN "-" ELSE "") \o substringFrom(expr1, at + 2)
      isExplicitPrefix == prefixMatch /\ (registeredBase # NoBase \/ prefix = "D")
      expr == IF isExplicitPrefix THEN stripped ELSE expr1
      options == IF prefixMatch /\ registeredBase # NoBase
                   THEN [options0 EXCEPT !.inputBase = registeredBase]
                 ELSE options0
      inBase == invoke("parseRationalInBase", <<expr, isExplicitPrefix, options>>)
  IN IF prefixMatch /\ ~isExplicitPrefix /\ toLowerCase(prefix) # "e"
       THEN Err("Invalid or unregistered prefix")
     ELSE IF expr = "" THEN Err("Unexpected end of expression")
     ELSE IF inBase # NoResult THEN inBase
     ELSE invoke("parseRationalDecimalForms", <<expr, options>>)

\* ------------------------------------------------------------------------
\* Continued fractions
\* ------------------------------------------------------------------------

\* the end of the longest run (\d+~?)* starting at index i
RECURSIVE scanCfTerms(_, _)
scanCfTerms(s, i) ==
  LET j == scanWhile(s, i, DigitChars)
  IN IF j = i THEN i
     ELSE IF charAt(s, j) = "~" THEN scanCfTerms(s, j + 1)
     ELSE j

\* Rational.fromContinuedFraction: a0 + 1/(a1 + 1/(a2 + ...))
RECURSIVE fromContinuedFraction(_)
fromContinuedFraction(cf) ==
  IF Len(cf) = 1 THEN QInt(cf[1])
  ELSE QAdd(QInt(cf[1]), QDiv(QInt(1), fromContinuedFraction(Tail(cf))))

\* lines 3620-3666: the coefficients of "a0.~a1~a2~..." as a sequence;
\* ok = FALSE when the text is rejected
parseContinuedFraction(cfString) ==
  LET isNegative == startsWith(cfString, "-")
      i0 == IF isNegative THEN 1 ELSE 0
      i1 == scanWhile(cfString, i0, DigitChars)
      matched == i1 > i0 /\ charAt(cfString, i1) = "." /\ charAt(cfString, i1 + 1) = "~"
      magnitude == bigInt(substring(cfString, i0, i1))
      intPart == IF isNegative THEN -magnitude ELSE magnitude
      cfTermsStr == substringFrom(cfString, i1 + 2)
      terms == splitStr(cfTermsStr, "~")
  IN IF ~matched THEN [ok |-> FALSE, cf |-> <<>>]
     ELSE IF cfTermsStr = "0" THEN [ok |-> TRUE, cf |-> <<intPart>>]
     ELSE IF cfTermsStr = "" \/ endsWith(cfTermsStr, "~") \/ includes(cfTermsStr, "~~")
       THEN [ok |-> FALSE, cf |-> <<>>]
     ELSE IF \E k \in 1..Len(terms) : ~someDigits(terms[k]) \/ bigInt(terms[k]) <= 0
       THEN [ok |-> FALSE, cf |-> <<>>]
     ELSE [ok |-> TRUE, cf |-> <<intPart>> \o [k \in 1..Len(terms) |-> bigInt(terms[k])]]

\* lines 3574-3612: Parser.#parseContinuedFraction
privateParseContinuedFraction(expr, options) ==
  LET i0 == IF startsWith(expr, "-") THEN 1 ELSE 0
      i1 == scanWhile(expr, i0, DigitChars)
      matched == i1 > i0 /\ charAt(expr, i1) = "." /\ charAt(expr, i1 + 1) = "~"
      termsEnd == scanCfTerms(expr, i1 + 2)
      cfTermsStr == substring(expr, i1 + 2, termsEnd)
      cfArray == invoke("parseContinuedFraction", <<substring(expr, 0, termsEnd)>>)
  IN IF ~matched THEN Err("Invalid continued fraction format")
     ELSE IF cfTermsStr = "" THEN Err("Continued fraction must have at least one term after .~")
     ELSE IF endsWith(cfTermsStr, "~") THEN Err("Continued fraction cannot end with ~")
     ELSE IF ~cfArray.ok THEN Err("Invalid continued fraction term")
     ELSE Ok(newRational(fromContinuedFraction(cfArray.cf)), substringFrom(expr, termsEnd))

\* ------------------------------------------------------------------------
\* parseInterval: a number or an interval literal a:b
\* ------------------------------------------------------------------------


\* /^-?[@\w./:^]+\[/
looksLikeUncertainty(expr) ==
  LET start == IF startsWith(expr, "-") THEN 1 ELSE 0
      runEnd == scanWhile(expr, start, WordChars \o "@./:^")
  IN runEnd > start /\ charAt(expr, runEnd) = "["

\* lines 2604-2618
parseIntervalUncertainty(expr, options) ==
  IF includes(expr, "[") /\ includes(expr, "]") /\ looksLikeUncertainty(expr)
    THEN LET result == invoke("parseDecimalUncertainty", <<expr, options>>)
         IN IF result.ok THEN Ok(result.value, "") ELSE NoResult
  ELSE NoResult

\* lines 2623-2677: an interval with a continued fraction on either side;
\* what the left side leaves unread is not looked at
parseIntervalContinuedFractionInterval(expr, options) ==
  LET colonIndex == indexOf(expr, ":")
      leftPart == substring(expr, 0, colonIndex)
      rightPart == substringFrom(expr, colonIndex + 1)
      leftResult == IF includes(leftPart, ".~") THEN invoke("privateParseContinuedFraction", <<leftPart, options>>)
                    ELSE invoke("parseInterval", <<leftPart, options>>)
      rightResult == IF includes(rightPart, ".~") THEN invoke("privateParseContinuedFraction", <<rightPart, options>>)
                     ELSE invoke("parseInterval", <<rightPart, options>>)
  IN IF ~includes(expr, ":") THEN NoResult
     ELSE IF ~includes(leftPart, ".~") /\ ~includes(rightPart, ".~") THEN NoResult
     ELSE IF ~leftResult.ok \/ ~rightResult.ok THEN NoResult
     ELSE IF isInterval(leftResult.value) THEN NoResult
     ELSE IF isInterval(rightResult.value) /\ (rightResult.value.tr \/ ~isPoint(rightResult.value))
       THEN NoResult
     ELSE Ok(newRationalInterval(leftResult.value.lo, rightResult.value.lo), rightResult.rem)

\* lines 2621-2686
parseIntervalContinuedFraction(expr, options) ==
  LET cfInterval == invoke("parseIntervalContinuedFractionInterval", <<expr, options>>)
      cfResult == invoke("privateParseContinuedFraction", <<expr, options>>)
  IN IF ~includes(expr, ".~") THEN NoResult
     ELSE IF cfInterval # NoResult THEN cfInterval
     ELSE IF cfResult.ok THEN cfResult
     ELSE NoResult

\* lines 2706-2721: digits of the base with at most one "." that is
\* followed by something other than "."
RECURSIVE scanDecimalInBase(_, _, _, _)
scanDecimalInBase(expr, i, hasDecimalPoint, baseSystem) ==
  IF i < Len(expr) /\ isValidChar(baseSystem, charAt(expr, i))
    THEN scanDecimalInBase(expr, i + 1, hasDecimalPoint, baseSystem)
  ELSE IF /\ charAt(expr, i) = "." /\ ~hasDecimalPoint
          /\ i + 1 < Len(expr) /\ charAt(expr, i + 1) # "."
    THEN scanDecimalInBase(expr, i + 1, TRUE, baseSystem)
  ELSE [endIndex |-> i, hasDecimalPoint |-> hasDecimalPoint]

\* lines 2689-2760: a plain decimal, looked for only when the rest of the
\* text has no "#", ":" or "["
parseIntervalDecimal(expr, options) ==
  LET baseSystem == IF options.inputBase = NoBase THEN DECIMAL ELSE options.inputBase
      first == IF charAt(expr, 0) = "-" THEN 1 ELSE 0
      st == scanDecimalInBase(expr, first, FALSE, baseSystem)
      decimalStr == substring(expr, 0, st.endIndex)
      rest == substringFrom(expr, st.endIndex)
      inBase == invoke("parseBaseNotation", <<decimalStr, options.inputBase, options>>)
      rounded == invoke("parseNonRepeatingDecimal", <<substringFrom(decimalStr, first), first = 1>>)
  IN IF ~includes(expr, ".") \/ includes(expr, "#") \/ includes(expr, ":") \/ includes(expr, "[")
       THEN NoResult
     ELSE IF ~st.hasDecimalPoint \/ st.endIndex <= first + 1 THEN NoResult
     ELSE IF hasInputBase(options)
       THEN IF inBase.ok THEN Ok(inBase.value, rest) ELSE NoResult
     ELSE IF options.typeAware THEN Ok(rationalFromDecimalString(decimalStr), rest)
     ELSE IF rounded.ok THEN Ok(rounded.value, rest)
     ELSE NoResult

\* lines 2765-2829: a:b with a repeating decimal on either side
parseIntervalRepeating(expr, options) ==
  LET colonIndex == indexOf(expr, ":")
      beforeColon == substring(expr, 0, colonIndex)
      afterColonStart == substringFrom(expr, colonIndex + 1)
      signed(s) == IF startsWith(s, "-") THEN substringFrom(s, 1) ELSE s
      startsNumeric(s, cls) == includes(cls, charAt(signed(s), 0)) /\ signed(s) # ""
      isIntervalPrefix(i) == LET r == invoke("parseRepeatingDecimal", <<substring(expr, 0, i), options>>)
                             IN r.ok /\ isInterval(r.value)
      ends == {i \in 1..(Len(expr) - 1) :
                 isIntervalPrefix(i) /\ ~includes(DigitChars \o "#.-", charAt(expr, i))}
      whole == invoke("parseRepeatingDecimal", <<expr, options>>)
  IN IF ~includes(expr, "#") \/ ~includes(expr, ":") \/ ~startsNumeric(expr, DigitChars \o ".")
       THEN NoResult
     ELSE IF colonIndex <= 0 THEN NoResult
     ELSE IF \/ signed(beforeColon) = ""
             \/ ~allIn(signed(beforeColon), DigitChars \o ".#")
             \/ ~startsNumeric(afterColonStart, DigitChars \o ".#")
             \/ ~(includes(beforeColon, "#") \/ includes(afterColonStart, "#"))
       THEN NoResult
     ELSE IF ~whole.ok \/ ~isInterval(whole.value) THEN NoResult
     ELSE IF ends # {}
       THEN Ok(invoke("parseRepeatingDecimal", <<substring(expr, 0, Min(ends)), options>>).value,
               substringFrom(expr, Min(ends)))
     ELSE Ok(whole.value, "")

\* lines 2857-2893: the extent of a number or interval written in the
\* digits of the input base
RECURSIVE scanBaseInterval(_, _, _)
scanBaseInterval(expr, st, baseSystem) ==
  LET i == st.endIndex
      char == charAt(expr, i)
  IN IF i >= Len(expr) THEN st
     ELSE IF isValidChar(baseSystem, char)
       THEN scanBaseInterval(expr, [st EXCEPT !.endIndex = i + 1], baseSystem)
     ELSE IF char = "." /\ charAt(expr, i + 1) = "."
       THEN IF st.hasMixedNumber \/ st.hasDecimalPoint \/ st.hasFraction \/ st.hasColon THEN st
            ELSE scanBaseInterval(expr, [st EXCEPT !.hasMixedNumber = TRUE, !.endIndex = i + 2], baseSystem)
     ELSE IF char = "." /\ ~st.hasDecimalPoint /\ ~st.hasMixedNumber
       THEN scanBaseInterval(expr, [st EXCEPT !.hasDecimalPoint = TRUE, !.endIndex = i + 1], baseSystem)
     ELSE IF char = "/" /\ ~st.hasFraction
       THEN scanBaseInterval(expr, [st EXCEPT !.hasFraction = TRUE, !.endIndex = i + 1], baseSystem)
     ELSE IF char = ":" /\ ~st.hasColon /\ ~st.hasMixedNumber
       THEN scanBaseInterval(expr,
              [st EXCEPT !.hasColon = TRUE, !.hasDecimalPoint = FALSE, !.hasFraction = FALSE,
                         !.endIndex = i + 1],
              baseSystem)
     ELSE st

\* lines 2903-2914
intervalPartsValidInBase(testStr, baseSystem) ==
  LET parts == splitOn(testStr, "./:")
  IN \A index \in 1..Len(parts) :
       IF parts[index] = ""
         THEN includes(testStr, ".") /\ (index = 1 \/ index = Len(parts))
       ELSE isValidString(baseSystem, parts[index])

\* lines 2832-2931: with a non-decimal input base the literal is handed to
\* parseBaseNotation and its value is returned as it is
parseIntervalInBase(expr, options) ==
  LET trimmed == trim(expr)
      at == IF startsWith(trimmed, "-") THEN 1 ELSE 0
      debugMatch == charAt(trimmed, at) = "0" /\ isLetter(charAt(trimmed, at + 1))
      first == IF charAt(expr, 0) = "-" THEN 1 ELSE 0
      st == scanBaseInterval(expr,
              [endIndex |-> first, hasDecimalPoint |-> FALSE, hasMixedNumber |-> FALSE,
               hasFraction |-> FALSE, hasColon |-> FALSE],
              options.inputBase)
      numberStr == substring(expr, 0, st.endIndex)
      result == invoke("parseBaseNotation", <<numberStr, options.inputBase, options>>)
  IN IF ~hasInputBase(options) \/ includes(expr, "[") \/ includes(expr, "#") \/ debugMatch
       THEN NoResult
     ELSE IF st.endIndex <= first THEN NoResult
     ELSE IF ~intervalPartsValidInBase(substringFrom(numberStr, first), options.inputBase)
       THEN NoResult
     ELSE IF result.ok THEN Ok(result.value, substringFrom(expr, st.endIndex))
     ELSE NoResult

\* the end of E, an optional "-" and digits at the start of s
eNotationEnd(s) ==
  scanWhile(s, IF charAt(s, 1) = "-" THEN 2 ELSE 1, DigitChars)

\* lines 2934-3061: a rational, optionally followed by ":" and a second one
parseIntervalRational(expr, options) ==
  LET firstResult == invoke("parseRational", <<expr, options>>)
      afterFirst == firstResult.rem
      eEndIndex == eNotationEnd(afterFirst)
      eBeforeColon == charAt(afterFirst, 0) = "E" /\ charAt(afterFirst, eEndIndex) = ":"
      eResult == invoke("parseENotation", <<pointInterval(firstResult.value.lo),
                                substring(afterFirst, 0, eEndIndex), options>>)
      firstValue == IF eBeforeColon THEN newRational(eResult.value.lo) ELSE firstResult.value
      remainingAfterFirst == IF eBeforeColon THEN substringFrom(afterFirst, eEndIndex) ELSE afterFirst
      secondResult == invoke("parseRational", <<substringFrom(remainingAfterFirst, 1), options>>)
      tightE == charAt(secondResult.rem, 0) = "E" \/ startsWith(secondResult.rem, "_^")
      secondE == invoke("parseENotation", <<pointInterval(secondResult.value.lo), secondResult.rem, options>>)
      secondValue == IF tightE THEN secondE.value.lo ELSE secondResult.value.lo
      remainingExpr == IF tightE THEN secondE.rem ELSE secondResult.rem
  IN IF ~firstResult.ok THEN firstResult
     ELSE IF eBeforeColon /\ ~eResult.ok THEN eResult
     ELSE IF charAt(remainingAfterFirst, 0) # ":"
       THEN IF options.typeAware
              THEN IF isRational(firstValue) /\ firstValue.lo.d = 1 /\ ~firstValue.ef
                     THEN Ok(newInteger(firstValue.lo.n), remainingAfterFirst)
                   ELSE Ok(firstValue, remainingAfterFirst)
            ELSE Ok(pointInterval(firstValue.lo), remainingAfterFirst)
     ELSE IF ~secondResult.ok THEN secondResult
     ELSE IF tightE /\ ~secondE.ok THEN secondE
     ELSE Ok([newRationalInterval(firstValue.lo, secondValue) EXCEPT !.ei = TRUE], remainingExpr)

\* lines 2602-3062
parseInterval(expr, options) ==
  LET uncertainty == invoke("parseIntervalUncertainty", <<expr, options>>)
      continued == invoke("parseIntervalContinuedFraction", <<expr, options>>)
      decimal == invoke("parseIntervalDecimal", <<expr, options>>)
      repeating == invoke("parseIntervalRepeating", <<expr, options>>)
      inBase == invoke("parseIntervalInBase", <<expr, options>>)
  IN IF uncertainty # NoResult THEN uncertainty
     ELSE IF continued # NoResult THEN continued
     ELSE IF decimal # NoResult THEN decimal
     ELSE IF repeating # NoResult THEN repeating
     ELSE IF inBase # NoResult THEN inBase
     ELSE invoke("parseIntervalRational", <<expr, options>>)

\* ------------------------------------------------------------------------
\* parseFactor, parseTerm, parseExpression: the recursive-descent evaluator
\* ------------------------------------------------------------------------


\* lines 2385-2389
parseExponentExpression(expr, options) == invoke("parseFactor", <<expr, options>>)

\* the factorial of an Integer, of a Rational with denominator 1 (a
\* Rational again) or of a point interval holding an integer (an interval
\* again); lines 2134-2214 and their three copies
factorialOf(value, isDouble) ==
  LET f == IF isDouble THEN doubleFactorial(value) ELSE factorial(value)
  IN IF isInteger(value) THEN f
     ELSE IF isRational(value) /\ value.lo.d = 1
       THEN IF f.ok THEN Ok(newRational(f.value.lo), "") ELSE f
     ELSE IF isInterval(value) /\ ~value.tr /\ isPoint(value) /\ value.lo.d = 1
       THEN IF f.ok THEN Ok(pointInterval(f.value.lo), "") ELSE f
     ELSE IF isDouble THEN Err("Double factorial is not defined for negative integers")
     ELSE Err("Factorial is not defined for negative integers")

postfixFactorial(result) ==
  IF ~result.ok THEN result
  ELSE IF Len(result.rem) > 1 /\ substring(result.rem, 0, 2) = "!!"
    THEN LET f == invoke("factorialOf", <<result.value, TRUE>>)
         IN IF f.ok THEN Ok(f.value, substringFrom(result.rem, 2)) ELSE f
  ELSE IF Len(result.rem) > 0 /\ charAt(result.rem, 0) = "!"
    THEN LET f == invoke("factorialOf", <<result.value, FALSE>>)
         IN IF f.ok THEN Ok(f.value, substringFrom(result.rem, 1)) ELSE f
  ELSE result

\* lines 2247-2252
isZeroBase(value) ==
  /\ ~value.tr
  /\ value.lo = QInt(0)
  /\ value.hi = QInt(0)

\* lines 2254-2257: a bare bigint is compared with 0n, anything else must
\* be a Rational or an Integer
isZeroExponent(value, isIntegerExponent) ==
  IF isIntegerExponent THEN value.lo.n = 0
  ELSE (isRational(value) \/ isInteger(value)) /\ value.lo.n = 0

\* lines 2227-2233
closeExponent(powerResult) ==
  IF ~powerResult.ok THEN powerResult
  ELSE IF Len(powerResult.rem) = 0 \/ charAt(powerResult.rem, 0) # ")"
    THEN Err("Missing closing parenthesis in exponent")
  ELSE Ok(powerResult.value, substringFrom(powerResult.rem, 1))

\* "^": lines 2218-2276 after a number (afterNumber), lines 1199-1246,
\* 1419-1473 and 2046-2094 after a parenthesis or a tight E
standardPower(base, powerExpr, options, afterNumber) ==
  LET parenthesised == afterNumber /\ startsWith(powerExpr, "(")
      asInteger == invoke("parseExponent", <<powerExpr>>)
      isIntegerExponent == ~parenthesised /\ asInteger.ok
      powerResult ==
        IF parenthesised
          THEN invoke("closeExponent", <<invoke("parseExpression", <<substringFrom(powerExpr, 1), options>>)>>)
        ELSE IF asInteger.ok THEN asInteger
        ELSE invoke("parseExponentExpression", <<powerExpr, options>>)
      exact == pow(base, powerResult.value.lo.n)
      enclosure == rationalIntervalPower(base, powerResult.value)
  IN IF ~powerResult.ok THEN powerResult
     ELSE IF isZeroBase(base) /\ isZeroExponent(powerResult.value, isIntegerExponent)
       THEN Err("Zero cannot be raised to the power of zero")
     ELSE IF isIntegerExponent
       THEN IF exact.ok THEN Ok(exact.value, powerResult.rem) ELSE exact
     ELSE IF afterNumber THEN Ok([enclosure EXCEPT !.sp = TRUE], powerResult.rem)
     ELSE Ok(enclosure, powerResult.rem)

\* "**" after a parenthesis: lines 1247-1327 and 1474-1554
multiplicativePowerParenthesis(base, powerExpr, options) ==
  LET asInteger == invoke("parseExponent", <<powerExpr>>)
      isIntegerExponent == asInteger.ok
      powerResult == IF asInteger.ok THEN asInteger
                     ELSE invoke("parseExponentExpression", <<powerExpr, options>>)
      exponent == powerResult.value
      product == mpow(base, exponent.lo.n)
  IN IF ~powerResult.ok THEN powerResult
     ELSE IF isZeroExponent(exponent, isIntegerExponent)
       THEN Err("Multiplicative exponentiation requires at least one factor")
     ELSE IF ~isIntegerExponent /\ isRational(exponent) /\ exponent.lo.d <= 10 /\ exponent.lo.d > 1
       THEN Ok([newtonRoot(base, exponent.lo.d) EXCEPT !.sp = TRUE], powerResult.rem)
     ELSE IF isIntegerExponent
       THEN IF product.ok THEN Ok([product.value EXCEPT !.sp = TRUE], powerResult.rem)
            ELSE product
     ELSE Ok([rationalIntervalPower(base, exponent) EXCEPT !.sp = TRUE], powerResult.rem)

\* "**" after a tight E on a number: lines 2095-2126
multiplicativePowerENotation(base, powerExpr) ==
  LET powerResult == invoke("parseExponent", <<powerExpr>>)
      product == mpow(base, powerResult.value.lo.n)
  IN IF ~powerResult.ok THEN powerResult
     ELSE IF powerResult.value.lo.n = 0
       THEN Err("Multiplicative exponentiation requires at least one factor")
     ELSE IF product.ok THEN Ok([product.value EXCEPT !.sp = TRUE], powerResult.rem)
     ELSE product

\* "**" evaluated as "^" is evaluated: the result is promoted like any
\* other power
multiplicativePowerAsStandard(base, powerExpr, options) ==
  invoke("standardPower", <<base, powerExpr, options, TRUE>>)

\* "**" after a number: lines 2277-2339.  The bigint returned by
\* parseExponent is neither an Integer nor a Rational.
multiplicativePower(base, powerExpr, options) ==
  LET asInteger == invoke("parseExponent", <<powerExpr>>)
      powerResult ==
        IF startsWith(powerExpr, "(")
          THEN invoke("closeExponent", <<invoke("parseExpression", <<substringFrom(powerExpr, 1), options>>)>>)
        ELSE IF asInteger.ok THEN asInteger
        ELSE invoke("parseExpression", <<powerExpr, options>>)
      exponent == powerResult.value
      isIntegerExponent == isInteger(exponent) \/ (isRational(exponent) /\ exponent.lo.d = 1)
      product == mpow(base, exponent.lo.n)
  IN IF ~powerResult.ok THEN powerResult
     ELSE IF isZeroExponent(exponent, FALSE)
       THEN Err("Multiplicative exponentiation requires at least one factor")
     ELSE IF isIntegerExponent
       THEN IF product.ok THEN Ok([product.value EXCEPT !.sp = TRUE], powerResult.rem)
            ELSE product
     ELSE Ok([rationalIntervalPower(base, exponent) EXCEPT !.sp = TRUE], powerResult.rem)

\* "^" or "**" after the operand and its factorials
postfixPower(factorialResult, options, afterNumber, afterENotation) ==
  IF ~factorialResult.ok THEN factorialResult
  ELSE IF charAt(factorialResult.rem, 0) = "^"
    THEN invoke("standardPower", <<factorialResult.value, substringFrom(factorialResult.rem, 1), options,
                       afterNumber /\ ~afterENotation>>)
  ELSE IF startsWith(factorialResult.rem, "**")
    THEN IF ~afterNumber
           THEN invoke("multiplicativePowerParenthesis", <<factorialResult.value,
                                               substringFrom(factorialResult.rem, 2), options>>)
         ELSE IF afterENotation
           THEN invoke("multiplicativePowerENotation", <<factorialResult.value,
                                             substringFrom(factorialResult.rem, 2)>>)
         ELSE invoke("multiplicativePower", <<factorialResult.value,
                                  substringFrom(factorialResult.rem, 2), options>>)
  ELSE factorialResult

\* lines 1948-1953
hasTightENotation(rem) ==
  Len(rem) > 0 /\ (charAt(rem, 0) = "E" \/ startsWith(rem, "TE") \/ startsWith(rem, "_^"))

\* tight E, then factorials, then a power: lines 1100-1557 and 1947-2342
postfixOperators(result, options, afterNumber) ==
  IF ~result.ok THEN result
  ELSE IF hasTightENotation(result.rem)
    THEN invoke("postfixPower", <<invoke("postfixFactorial", <<invoke("parseENotation", <<result.value, result.rem, options>>)>>),
                      options, afterNumber, TRUE>>)
  ELSE invoke("postfixPower", <<invoke("postfixFactorial", <<result>>), options, afterNumber, FALSE>>)

\* a parenthesised group that is evaluated without being taken off the text
parenthesisKeepingText(expr, options) ==
  LET subExprResult == invoke("parseExpression", <<substringFrom(expr, 1), options>>)
  IN IF ~subExprResult.ok THEN subExprResult ELSE Ok(subExprResult.value, expr)

\* lines 1085-1558
parseFactorParenthesis(expr, options) ==
  LET subExprResult == invoke("parseExpression", <<substringFrom(expr, 1), options>>)
  IN IF ~subExprResult.ok THEN subExprResult
     ELSE IF Len(subExprResult.rem) = 0 \/ charAt(subExprResult.rem, 0) # ")"
       THEN Err("Missing closing parenthesis")
     ELSE invoke("postfixOperators", <<Ok(subExprResult.value, substringFrom(subExprResult.rem, 1)),
                           options, FALSE>>)

\* the optional precision /^\[(-?\d+)\]/ after a function name: the text
\* that follows it
afterPrecision(remainingExpr) ==
  LET start == IF charAt(remainingExpr, 1) = "-" THEN 2 ELSE 1
      i == scanWhile(remainingExpr, start, DigitChars)
  IN IF charAt(remainingExpr, 0) = "[" /\ i > start /\ charAt(remainingExpr, i) = "]"
       THEN substringFrom(remainingExpr, i + 1)
     ELSE remainingExpr

\* the value of a constant or of a function call: an enclosure flagged as
\* an explicit interval
transcendental == [opaqueInterval EXCEPT !.ei = TRUE]

\* NAME[prec](argument): lines 1624-1653 and 1698-1887
parseFunctionCall(name, expr, options) ==
  LET remainingExpr == afterPrecision(substringFrom(expr, Len(name)))
      argResult == invoke("parseExpression", <<substringFrom(remainingExpr, 1), options>>)
  IN IF ~startsWith(remainingExpr, "(") THEN Err(name \o " requires parentheses")
     ELSE IF ~argResult.ok THEN argResult
     ELSE IF Len(argResult.rem) = 0 \/ charAt(argResult.rem, 0) # ")"
       THEN Err("Missing closing parenthesis for " \o name \o " function")
     ELSE Ok(transcendental, substringFrom(argResult.rem, 1))

\* lines 1656-1696
parseLogCall(expr, options) ==
  LET remainingExpr == afterPrecision(substringFrom(expr, 3))
      arg1Result == invoke("parseExpression", <<substringFrom(remainingExpr, 1), options>>)
      hasBase == startsWith(arg1Result.rem, ",")
      arg2Result == invoke("parseExpression", <<substringFrom(arg1Result.rem, 1), options>>)
      finalRemainingExpr == IF hasBase THEN arg2Result.rem ELSE arg1Result.rem
  IN IF ~startsWith(remainingExpr, "(") THEN Err("LOG requires parentheses")
     ELSE IF ~arg1Result.ok THEN arg1Result
     ELSE IF hasBase /\ ~arg2Result.ok THEN arg2Result
     ELSE IF Len(finalRemainingExpr) = 0 \/ charAt(finalRemainingExpr, 0) # ")"
       THEN Err("Missing closing parenthesis for LOG function")
     ELSE Ok(transcendental, substringFrom(finalRemainingExpr, 1))

\* lines 1585-1621
parseExpCall(expr, options) ==
  LET remainingExpr == afterPrecision(substringFrom(expr, 3))
      argResult == invoke("parseExpression", <<substringFrom(remainingExpr, 1), options>>)
  IN IF ~startsWith(remainingExpr, "(") THEN Ok(transcendental, remainingExpr)
     ELSE IF ~argResult.ok THEN argResult
     ELSE IF Len(argResult.rem) = 0 \/ charAt(argResult.rem, 0) # ")"
       THEN Err("Missing closing parenthesis for EXP function")
     ELSE Ok(transcendental, substringFrom(argResult.rem, 1))

FunctionNames == <<"LN", "SIN", "COS", "ARCSIN", "ARCCOS", "TAN", "ARCTAN">>

\* lines 1561-1889
parseFactorFunction(expr, options) ==
  LET named == SelectSeq(FunctionNames, LAMBDA name : startsWith(expr, name))
  IN IF startsWith(expr, "PI") THEN Ok(transcendental, afterPrecision(substringFrom(expr, 2)))
     ELSE IF startsWith(expr, "EXP") THEN invoke("parseExpCall", <<expr, options>>)
     ELSE IF startsWith(expr, "LOG") THEN invoke("parseLogCall", <<expr, options>>)
     ELSE IF named # <<>> THEN invoke("parseFunctionCall", <<named[1], expr, options>>)
     ELSE NoResult

\* /^([-\w./:^]+(?::[-\w./:^]+)?)\[(\d+)\]/, line 1894
BaseNotationChars == WordChars \o "-./:^"

deprecatedBaseNotation(expr) ==
  LET i == scanWhile(expr, 0, BaseNotationChars)
      j == scanWhile(expr, i + 1, DigitChars)
  IN i > 0 /\ charAt(expr, i) = "[" /\ j > i + 1 /\ charAt(expr, j) = "]"

\* lines 1892-1916
parseFactorBracket(expr, options) ==
  LET m == uncertaintyMatch(expr, FALSE)
      result == invoke("parseDecimalUncertainty", <<substring(expr, 0, m.length), options>>)
  IN IF deprecatedBaseNotation(expr)
       THEN Err("Bracket base notation (Value[Base]) is no longer supported. Use prefix notation (0xValue, 0bValue) or the BASE command.")
     ELSE IF ~m.matched THEN NoResult
     ELSE IF result.ok THEN Ok(result.value, substringFrom(expr, m.length))
     ELSE result

\* lines 1919-1943: the flags of the operand survive only on a type-aware
\* Rational
parseFactorNegation(expr, options) ==
  LET factorResult == invoke("parseFactor", <<substringFrom(expr, 1), options>>)
      value == factorResult.value
      product == multiply(pointInterval(QInt(-1)), value)
  IN IF ~factorResult.ok THEN factorResult
     ELSE IF options.typeAware /\ isInteger(value) THEN Ok(negate(value), factorResult.rem)
     ELSE IF options.typeAware /\ isRational(value)
       THEN Ok([negate(value) EXCEPT !.ef = value.ef], factorResult.rem)
     ELSE Ok(product.value, factorResult.rem)

\* lines 1079-2343
parseFactor(expr, options) ==
  LET function == IF isUpper(charAt(expr, 0)) THEN invoke("parseFactorFunction", <<expr, options>>)
                  ELSE NoResult
      bracket == IF includes(expr, "[") /\ includes(expr, "]") THEN invoke("parseFactorBracket", <<expr, options>>)
                 ELSE NoResult
  IN IF Len(expr) = 0 THEN Err("Unexpected end of expression")
     ELSE IF charAt(expr, 0) = "(" THEN invoke("parseFactorParenthesis", <<expr, options>>)
     ELSE IF function # NoResult THEN function
     ELSE IF bracket # NoResult THEN bracket
     ELSE IF charAt(expr, 0) = "-" /\ ~includes(expr, "[") /\ ~includes(expr, ":")
       THEN invoke("parseFactorNegation", <<expr, options>>)
     ELSE invoke("postfixOperators", <<invoke("parseInterval", <<expr, options>>), options, TRUE>>)

\* the exponent of the E operator: lines 1032-1052
eOperatorExponent(value) ==
  IF isInteger(value) THEN Ok(value, "")
  ELSE IF isRational(value)
    THEN IF value.lo.d # 1 THEN Err("E notation exponent must be an integer") ELSE Ok(value, "")
  ELSE IF isInterval(value)
    THEN IF value.tr \/ value.lo # value.hi \/ value.lo.d # 1
           THEN Err("E notation exponent must be an integer")
         ELSE Ok(value, "")
  ELSE Err("Invalid E notation exponent type")

\* one operator of the loop of lines 996-1067, then the rest of the loop
parseTermLoop(value, currentExpr, options) ==
  LET isSpacedE == startsWith(currentExpr, "TE")
      operator == IF isSpacedE THEN "E" ELSE charAt(currentExpr, 0)
      afterOperator == substringFrom(currentExpr, IF isSpacedE THEN 2 ELSE 1)
      operand == IF operator = "/" /\ charAt(afterOperator, 0) = "S"
                   THEN substringFrom(afterOperator, 1)
                 ELSE afterOperator
      factorResult == invoke("parseFactor", <<operand, options>>)
      exponent == eOperatorExponent(factorResult.value)
      combined == IF operator = "*" THEN multiply(value, factorResult.value)
                  ELSE IF operator = "/" THEN divide(value, factorResult.value)
                  ELSE IF exponent.ok THEN Ok(applyE(value, exponent.value.lo.n), "")
                  ELSE exponent
  IN IF ~(operator \in {"*", "/", "E"}) THEN Ok(value, currentExpr)
     ELSE IF ~factorResult.ok THEN factorResult
     ELSE IF ~combined.ok THEN combined
     ELSE invoke("parseTermLoop", <<combined.value, factorResult.rem, options>>)

\* lines 992-1073
parseTerm(expr, options) ==
  LET result == invoke("parseFactor", <<expr, options>>)
      looped == invoke("parseTermLoop", <<result.value, result.rem, options>>)
  IN IF ~result.ok THEN result
     ELSE IF ~looped.ok THEN looped
     ELSE Ok(invoke("promoteType", <<looped.value, options>>), looped.rem)

\* one operator of the loop of lines 965-980, then the rest of the loop
parseExpressionLoop(value, currentExpr, options) ==
  LET operator == charAt(currentExpr, 0)
      termResult == invoke("parseTerm", <<substringFrom(currentExpr, 1), options>>)
      combined == IF operator = "+" THEN add(value, termResult.value)
                  ELSE subtract(value, termResult.value)
  IN IF ~(operator \in {"+", "-"}) THEN Ok(value, currentExpr)
     ELSE IF ~termResult.ok THEN termResult
     ELSE invoke("parseExpressionLoop", <<combined.value, termResult.rem, options>>)

\* lines 961-986
parseExpression(expr, options) ==
  LET result == invoke("parseTerm", <<expr, options>>)
      looped == invoke("parseExpressionLoop", <<result.value, result.rem, options>>)
  IN IF ~result.ok THEN result
     ELSE IF ~looped.ok THEN looped
     ELSE Ok(invoke("promoteType", <<looped.value, options>>), looped.rem)

\* expression.replace(/ E/g, "TE"), replace(/\/ /g, "/S") and
\* replace(/\s+/g, ""): lines 938-945
RECURSIVE replaceAll(_, _, _)
replaceAll(s, from, to) ==
  IF Len(s) < Len(from) THEN s
  ELSE IF startsWith(s, from) THEN to \o replaceAll(substringFrom(s, Len(from)), from, to)
  ELSE substring(s, 0, 1) \o replaceAll(substringFrom(s, 1), from, to)

normalizeExpression(expression) ==
  replaceAll(replaceAll(replaceAll(expression, " E", "TE"), "/ ", "/S"), " ", "")

\* lines 928-955: the value of the expression, or the error raised
parse(expression, options) ==
  LET result == invoke("parseExpression", <<normalizeExpression(expression), options>>)
  IN IF trim(expression) = "" THEN Err("Expression cannot be empty")
     ELSE IF ~result.ok THEN result
     ELSE IF Len(result.rem) > 0 THEN Err("Unexpected token at end: " \o result.rem)
     ELSE Ok(result.value, "")

\* The routines of the parser, by name.
invoke(routine, args) ==
  CASE routine = "integerIfTypeAware" -> integerIfTypeAware(args[1], args[2])
    [] routine = "parseBaseNotationENotation" -> parseBaseNotationENotation(args[1], args[2], args[3], args[4], args[5])
    [] routine = "parseBaseNotationInterval" -> parseBaseNotationInterval(args[1], args[2], args[3], args[4])
    [] routine = "parseBaseNotationMixed" -> parseBaseNotationMixed(args[1], args[2], args[3], args[4])
    [] routine = "parseBaseNotationFraction" -> parseBaseNotationFraction(args[1], args[2], args[3], args[4])
    [] routine = "parseBaseNotationDecimal" -> parseBaseNotationDecimal(args[1], args[2], args[3], args[4])
    [] routine = "parseBaseNotationInteger" -> parseBaseNotationInteger(args[1], args[2], args[3], args[4])
    [] routine = "parseBaseNotationBody" -> parseBaseNotationBody(args[1], args[2], args[3], args[4])
    [] routine = "parseBaseNotation" -> parseBaseNotation(args[1], args[2], args[3])
    [] routine = "parseNonRepeatingDecimal" -> parseNonRepeatingDecimal(args[1], args[2])
    [] routine = "parseRepeatingDecimalInterval" -> parseRepeatingDecimalInterval(args[1], args[2])
    [] routine = "parseRepeatingDecimalHash" -> parseRepeatingDecimalHash(args[1], args[2])
    [] routine = "parseRepeatingDecimal" -> parseRepeatingDecimal(args[1], args[2])
    [] routine = "parseRepeatingDecimalOrRegular" -> parseRepeatingDecimalOrRegular(args[1], args[2], args[3])
    [] routine = "parseDecimalPointEndpoint" -> parseDecimalPointEndpoint(args[1], args[2], args[3], args[4])
    [] routine = "parseDecimalPointUncertainty" -> parseDecimalPointUncertainty(args[1], args[2], args[3], args[4])
    [] routine = "uncertaintyRange" -> uncertaintyRange(args[1], args[2], args[3], args[4], args[5])
    [] routine = "uncertaintySymmetric" -> uncertaintySymmetric(args[1], args[2], args[3], args[4], args[5], args[6])
    [] routine = "uncertaintyRelative" -> uncertaintyRelative(args[1], args[2], args[3], args[4], args[5], args[6])
    [] routine = "finalize" -> finalize(args[1], args[2], args[3], args[4])
    [] routine = "parseDecimalUncertainty" -> parseDecimalUncertainty(args[1], args[2])
    [] routine = "promoteType" -> promoteType(args[1], args[2])
    [] routine = "parseExponent" -> parseExponent(args[1])
    [] routine = "parseBaseAwareENotation" -> parseBaseAwareENotation(args[1], args[2], args[3])
    [] routine = "parseENotation" -> parseENotation(args[1], args[2], args[3])
    [] routine = "parseRationalInBase" -> parseRationalInBase(args[1], args[2], args[3])
    [] routine = "parseRationalRepeating" -> parseRationalRepeating(args[1], args[2])
    [] routine = "parseRationalDecimal" -> parseRationalDecimal(args[1])
    [] routine = "parseRationalFraction" -> parseRationalFraction(args[1])
    [] routine = "parseRationalDecimalForms" -> parseRationalDecimalForms(args[1], args[2])
    [] routine = "parseRational" -> parseRational(args[1], args[2])
    [] routine = "parseContinuedFraction" -> parseContinuedFraction(args[1])
    [] routine = "privateParseContinuedFraction" -> privateParseContinuedFraction(args[1], args[2])
    [] routine = "parseIntervalUncertainty" -> parseIntervalUncertainty(args[1], args[2])
    [] routine = "parseIntervalContinuedFractionInterval" -> parseIntervalContinuedFractionInterval(args[1], args[2])
    [] routine = "parseIntervalContinuedFraction" -> parseIntervalContinuedFraction(args[1], args[2])
    [] routine = "parseIntervalDecimal" -> parseIntervalDecimal(args[1], args[2])
    [] routine = "parseIntervalRepeating" -> parseIntervalRepeating(args[1], args[2])
    [] routine = "parseIntervalInBase" -> parseIntervalInBase(args[1], args[2])
    [] routine = "parseIntervalRational" -> parseIntervalRational(args[1], args[2])
    [] routine = "parseInterval" -> parseInterval(args[1], args[2])
    [] routine = "parseExponentExpression" -> parseExponentExpression(args[1], args[2])
    [] routine = "factorialOf" -> factorialOf(args[1], args[2])
    [] routine = "postfixFactorial" -> postfixFactorial(args[1])
    [] routine = "closeExponent" -> closeExponent(args[1])
    [] routine = "standardPower" -> standardPower(args[1], args[2], args[3], args[4])
    [] routine = "multiplicativePowerParenthesis" -> multiplicativePowerParenthesis(args[1], args[2], args[3])
    [] routine = "multiplicativePowerENotation" -> multiplicativePowerENotation(args[1], args[2])
    [] routine = "multiplicativePower" -> multiplicativePower(args[1], args[2], args[3])
    [] routine = "postfixPower" -> postfixPower(args[1], args[2], args[3], args[4])
    [] routine = "postfixOperators" -> postfixOperators(args[1], args[2], args[3])
    [] routine = "parseFactorParenthesis" -> parseFactorParenthesis(args[1], args[2])
    [] routine = "parseFunctionCall" -> parseFunctionCall(args[1], args[2], args[3])
    [] routine = "parseLogCall" -> parseLogCall(args[1], args[2])
    [] routine = "parseExpCall" -> parseExpCall(args[1], args[2])
    [] routine = "parseFactorFunction" -> parseFactorFunction(args[1], args[2])
    [] routine = "parseFactorBracket" -> parseFactorBracket(args[1], args[2])
    [] routine = "parseFactorNegation" -> parseFactorNegation(args[1], args[2])
    [] routine = "parseFactor" -> parseFactor(args[1], args[2])
    [] routine = "parseTermLoop" -> parseTermLoop(args[1], args[2], args[3])
    [] routine = "parseTerm" -> parseTerm(args[1], args[2])
    [] routine = "parseExpressionLoop" -> parseExpressionLoop(args[1], args[2], args[3])
    [] routine = "parseExpression" -> parseExpression(args[1], args[2])
    [] routine = "parse" -> parse(args[1], args[2])

\* ------------------------------------------------------------------------
\* The texts handed to parse
\* ------------------------------------------------------------------------

\* the largest digit value written in a generated literal
MaxValue == 3

Numerals == {ToString(n) : n \in 0..MaxValue}

Positive == {ToString(n) : n \in 1..MaxValue}

Parenthesised(S) == {"(" \o s \o ")" : s \in S}

\* runs of digits, some of them outside the alphabet of a small base
DigitRuns == Numerals \cup {"10", "11", "12", "101", "23", "32", "9", "ff"}

Numerators == Numerals \cup {"10", "110"}

Denominators == Positive \cup {"10", "11"}

Fractions == {a \o "/" \o b : a \in Numerators, b \in Denominators}

Decimals == {a \o "." \o b : a \in {"0", "1"}, b \in Numerals} \cup {"1.", "1.25"}

RepeatingDecimals == {"0.#" \o b : b \in Positive} \cup {"0.1#6", "1.#3"}

ContinuedFractions == {a \o ".~" \o b : a \in {"0", "3"}, b \in Positive} \cup {"3.~7", "0.~2~3"}

MixedNumbers == {"1..1/2", "10..1/10"}

PrefixedFractions == {p \o s : p \in {"0x", "0b"}, s \in {"10/2", "10/8", "10/10"}}

Prefixed ==
  {p \o s : p \in {"0x", "0b", "0t"}, s \in {"1", "2", "10", "101", "1.1", "a"}}
    \cup PrefixedFractions \cup {"0t10/2"}

ScalarLiterals ==
  DigitRuns \cup Fractions \cup Decimals \cup RepeatingDecimals \cup ContinuedFractions
    \cup MixedNumbers \cup Prefixed

\* the endpoints of interval literals: integers, fractions, decimals,
\* prefixed numbers, numbers carrying a tight E, negative numbers
Endpoints ==
  Numerals \cup {"10", "11", "1/2", "3/2", "0.5", "1.5", "0x2", "0b10", "1E1", "2E-1", "-1", "-1/2"}

IntervalLiterals == {a \o ":" \o b : a \in Endpoints, b \in Endpoints}

Literals == ScalarLiterals \cup IntervalLiterals

PowerBases ==
  Numerals \cup Parenthesised(Numerals)
    \cup {"1/2", "(1/2)", "0/1", "0.0", "0:0", "(1-1)", "(-2)", "1:2", "(1:2)"}

IntegerExponents == Numerals \cup {"-" \o k : k \in Positive} \cup Parenthesised(Numerals)

PowerExponents ==
  IntegerExponents \cup {"(1/2)", "(3/2)", "(-1)", "0/1", "(1-1)", "0.5", "0:0"}

Powers(operator) == {b \o operator \o k : b \in PowerBases, k \in PowerExponents}

PowerExpressions ==
  Powers("^") \cup Powers("**") \cup Parenthesised(Powers("**"))
    \cup {"-2**3", "-2^2", "2E1**2", "2E1^2"}

\* a decimal followed by more of the expression
DecimalLeaders == {"0.5", "1.25", "0.1", "1."}

DecimalFollowers == {"1", "1/2", "1:2", "0.#3", "1.2[+-1]", "0.3"}

DecimalSums == {d \o "+" \o t : d \in DecimalLeaders, t \in DecimalFollowers}

\* texts that are not one complete expression
Incomplete ==
  {"", " ", "  "} \cup {"(" \o s : s \in Numerals} \cup {s \o ")" : s \in Numerals}
    \cup {s \o t : s \in Positive, t \in {"x", "):3.~7", "x:3.~7", "+2:3.~7", ")+1", "+", "(", " 2", "^"}}
    \cup {"((1)", "(1))", "SIN(1", "SIN1", "2^(1", "2**(1", "(1+2", "1+2)", "1 2"}

Arithmetic ==
  {"1+2", "1/2+1/2", "3-1/2", "2*3", "1/2 / 1/4", "1/ 2", "6/3", "(1/2)*2", "-(1/2+1/4)", "-3/4",
   "3!", "3!!", "(3)!", "2 E1", "1.5 E2", "1.5E2", "1:2 E1", "1:2E1", "1/0", "1.2[+-1]", "1.2[5,6]",
   "PI", "EXP", "EXP(1)", "LN(2)", "LOG(2,3)", "SIN(1)+1", "PI[-3]", "-0x10", "12[3]", "2^3^2",
   "1_^2", "10_^2", "a_^2", "-1:2", "-(1:2)"}
    \cup DecimalLeaders \cup DecimalFollowers

Expressions ==
  Literals \cup PowerExpressions \cup DecimalSums \cup Incomplete \cup Arithmetic

InputBases == {NoBase, DECIMAL, BINARY, TERNARY, HEXADECIMAL}

\* the letters registered at run time, and the bases they can be given
RuntimePrefixes == {"t"}

RuntimeBases == {TERNARY}

\* ------------------------------------------------------------------------
\* The program: the process-wide prefix registry, and one call of
\* Parser.parse at a time (the parser is synchronous)
\* ------------------------------------------------------------------------

VARIABLES registry, expression, options, outcome

vars == <<registry, expression, options, outcome>>

\* no call is under way
NoOutcome == [ok |-> FALSE, value |-> NoValue, rem |-> "", err |-> "<no call>"]

\* Parser.parse has been called and has not returned
Pending == [ok |-> FALSE, value |-> NoValue, rem |-> "", err |-> "<pending>"]

NoOptions ==
  [typeAware |-> TRUE, inputBase |-> NoBase, prefixes |-> DefaultPrefixes,
   allowIntegerRangeNotation |-> TRUE, disableENotation |-> FALSE]

returned == outcome # NoOutcome /\ outcome # Pending

Init ==
  /\ registry = DefaultPrefixes
  /\ expression = ""
  /\ options = NoOptions
  /\ outcome = NoOutcome

\* the caller calls Parser.parse(expression, {typeAware, inputBase}) with a
\* text of the family; the registry is what getSystemForPrefix reads
Call(family) ==
  /\ outcome = NoOutcome
  /\ \E e \in family, typeAware \in BOOLEAN, inputBase \in InputBases :
       /\ expression' = e
       /\ options' = [typeAware |-> typeAware, inputBase |-> inputBase, prefixes |-> registry,
                      allowIntegerRangeNotation |-> TRUE, disableENotation |-> FALSE]
  /\ outcome' = Pending
  /\ UNCHANGED registry

\* a parse that remembers the run-time prefix t whatever the registry holds
parseRememberingPrefixes ==
  /\ outcome = Pending
  /\ outcome' = invoke("parse", <<expression,
                    [options EXCEPT !.prefixes = [p \in DOMAIN options.prefixes \cup {"t"} |->
                                                   IF p = "t" THEN TERNARY ELSE options.prefixes[p]]]>>)
  /\ UNCHANGED <<registry, expression, options>>

\* a parse that leaves the registry as it was when the package was loaded
parseResettingRegistry ==
  /\ outcome = Pending
  /\ outcome' = invoke("parse", <<expression, options>>)
  /\ registry' = DefaultPrefixes
  /\ UNCHANGED <<expression, options>>

\* Parser.parse runs to its return or its throw
Parse ==
  /\ outcome = Pending
  /\ outcome' = invoke("parse", <<expression, options>>)
  /\ UNCHANGED <<registry, expression, options>>

\* the caller is done with the result
Discard ==
  /\ returned
  /\ expression' = ""
  /\ options' = NoOptions
  /\ outcome' = NoOutcome
  /\ UNCHANGED registry

\* BaseSystem.registerPrefix(prefix, baseSystem), for a letter among the given ones
registerPrefixAmong(letters) ==
  /\ outcome = NoOutcome
  /\ \E prefix \in letters, baseSystem \in RuntimeBases :
       registry' = [p \in DOMAIN registry \cup {prefix} |->
                      IF p = prefix THEN baseSystem ELSE registry[p]]
  /\ UNCHANGED <<expression, options, outcome>>

\* BaseSystem.unregisterPrefix(prefix), for a letter among the given ones
unregisterPrefixAmong(letters) ==
  /\ outcome = NoOutcome
  /\ \E prefix \in letters :
       /\ prefix \in DOMAIN registry
       /\ registry' = [p \in DOMAIN registry \ {prefix} |-> registry[p]]
  /\ UNCHANGED <<expression, options, outcome>>

registerPrefix == registerPrefixAmong(RuntimePrefixes)

unregisterPrefix == unregisterPrefixAmong(RuntimePrefixes)

Next == Call(Expressions) \/ Parse \/ Discard \/ registerPrefix \/ unregisterPrefix

Spec == Init /\ [][Next]_vars

\* the calls whose text is one literal
NextLiterals == Call(Literals) \/ Parse \/ Discard \/ registerPrefix \/ unregisterPrefix

SpecLiterals == Init /\ [][NextLiterals]_vars

\* the calls whose text is one power
NextPowers == Call(PowerExpressions) \/ Parse \/ Discard \/ registerPrefix \/ unregisterPrefix

SpecPowers == Init /\ [][NextPowers]_vars

\* chains of two powers
PowerChains ==
  {"2" \o operator \o b \o operator \o c : operator \in {"^", "**"}, b \in Positive, c \in Positive}

\* a power with a decimal exponent, alone and followed by an operator
DecimalExponents == {"0.5", "1.5"}

AfterExponent == {"+1", "+1.5", "*2"}

PowerThenOperator ==
  {"2" \o operator \o e \o rest :
     operator \in {"^", "**"}, e \in DecimalExponents \cup {"0", "2"}, rest \in AfterExponent \cup {""}}

\* multiplicative powers of a square with a rational exponent
RootPowers ==
  {x \o "**" \o e : x \in {"1", "4", "(1)", "(4)", "1/4", "(1/4)", "2", "(2)"},
                    e \in {"(1/2)", "(3/2)", "(-1/2)", "(-3/2)"}}

\* a power after a tight and after a spaced E
ENotationPowers ==
  {a \o space \o "E" \o b \o "^" \o c :
     a \in Positive, space \in {"", " "}, b \in {"1", "2"}, c \in {"1", "2"}}

\* the endpoints of the scaled intervals, with their values
IntervalEndpoints ==
  {[text |-> ToString(n), q |-> QInt(n)] : n \in 0..MaxValue}
    \cup {[text |-> "0.5", q |-> Q(1, 2)], [text |-> "1.5", q |-> Q(3, 2)],
          [text |-> "-1", q |-> QInt(-1)]}

ScalingExponents == {-2, -1, 1, 2}

\* an interval literal followed by a tight or a spaced E
ScaledIntervals ==
  {a.text \o ":" \o b.text \o space \o "E" \o ToString(k) :
     a \in IntervalEndpoints, b \in IntervalEndpoints, space \in {"", " "}, k \in ScalingExponents}

\* what may follow a negated group
AfterNegation == {"", "+1", " + 1:3", "+1:3", "*1:3"}

\* a leading minus in front of a parenthesised sum, and in front of a literal
NegatedFactors ==
  {"-(" \o a \o "+" \o b \o ")" \o rest : a \in Positive, b \in Positive, rest \in AfterNegation}
    \cup {"-" \o a \o rest : a \in Positive, rest \in AfterNegation}

\* continued fractions with a negative integer part
NegativeContinuedFractions ==
  {"-" \o a \o ".~" \o terms : a \in Numerals, terms \in Positive \cup {"2~3", "1~2"}}

\* what may follow a continued fraction
AfterContinuedFraction == {"", "+1", "+1:2", " + 1:2"}

ContinuedFractionSums ==
  {cf \o rest : cf \in NegativeContinuedFractions, rest \in AfterContinuedFraction}

\* a number, an operator and an operand, with and without a space on
\* either side of the operator
SpacedOperands ==
  {"1" \o left \o operator \o right \o b :
     left \in {"", " "}, operator \in {"+", "-", "*"}, right \in {"", " "},
     b \in {"EXP(1)", "E", "PI", "2"}}

\* the two-character markers of Parser.parse, lines 938 and 942
Markers == {"TE", "/S"}

\* texts in which the caller has typed a marker between two numbers
TypedMarkers ==
  {a \o marker \o b : a \in {"1", "5", "(1)", "1:2"}, marker \in Markers, b \in {"1", "2"}}

\* what may follow a negated power
AfterNegatedPower == {"", "+1", " + 1:2", "+1:2"}

\* a leading minus in front of a power
NegatedPowers ==
  {"-" \o a \o "^" \o b \o rest : a \in Positive, b \in {"1", "2"}, rest \in AfterNegatedPower}

\* texts that combine operators
Operators ==
  PowerChains \cup PowerThenOperator \cup RootPowers \cup ENotationPowers \cup ScaledIntervals
    \cup NegatedFactors \cup ContinuedFractionSums \cup SpacedOperands \cup TypedMarkers
    \cup NegatedPowers

\* the calls whose text combines operators
NextOperators == Call(Operators) \/ Parse \/ Discard \/ registerPrefix \/ unregisterPrefix

SpecOperators == Init /\ [][NextOperators]_vars

\* the calls that go through every level of the descent: sums, products,
\* powers, factorials, functions, intervals, and texts that break off
Descents == Arithmetic \cup Incomplete \cup DecimalSums \cup PowerChains

NextDescents == Call(Descents) \/ Parse \/ Discard \/ registerPrefix \/ unregisterPrefix

\* Parser.parse is synchronous: a call that has been made runs, and a call
\* that has ended hands its outcome to the caller. The first is weak
\* fairness of Parse, which is enabled exactly while a call is pending,
\* written with that enabling condition; the second is weak fairness of
\* Discard.
ParseRuns == []<>(outcome # Pending) \/ []<><<Parse>>_vars

SpecDescents == Init /\ [][NextDescents]_vars /\ ParseRuns /\ WF_vars(Discard)

\* the letters registered at run time in the calls on prefixed literals:
\* bases.test.js registers "t" and "e"
RegisteredLetters == {"t", "e"}

\* digit runs after a prefix
PrefixedRuns ==
  {sign \o "0" \o p \o s : sign \in {"", "-"}, p \in {"x", "b", "o", "t"},
                            s \in {"1", "10", "11", "12", "101"}}

\* what a prefixed number is followed by inside its literal
Inherited == {"/10", "/11", "..1/10", ":10", ":11", "_^1", "_^10"}

PrefixedLiterals ==
  {"0" \o p \o a \o rest : p \in {"x", "b"}, a \in {"1", "a"}, rest \in Inherited}
    \ {"0xa_^10", "0x1_^10"}

\* literals that begin with 0e or 0E
ZeroELiterals ==
  {"0" \o e \o s : e \in {"e", "E"}, s \in {"", "1", "2", "1/2", "1:2"}}
    \cup {"0e12", "-0e1", "-0E1", "1:0e1", "1:0E1"}

ScientificMantissas == {"1", "2", "11"}

ScientificExponents == {"1", "2", "-1"}

\* a number followed by a tight E or by _^, with and without a prefix
ScientificLiterals ==
  {p \o m \o sep \o k : p \in {"", "0b", "0x", "0t"}, m \in ScientificMantissas,
                         sep \in {"E", "_^"}, k \in ScientificExponents}
    \cup {"0b1_^10", "0b11_^10", "0t2_^10", "0t12_^-1"}

\* a number followed by E or _^ and the exponent 0
ZeroScaled ==
  {sign \o m \o sep \o "0" : sign \in {"", "-"}, m \in ScientificMantissas \cup {"1.5"},
                              sep \in {"E", "_^"}}

Prefixes ==
  PrefixedRuns \cup PrefixedLiterals \cup ZeroELiterals \cup ScientificLiterals \cup ZeroScaled

\* the calls on literals that carry a prefix or scientific notation
NextPrefixes ==
  \/ Call(Prefixes)
  \/ Parse
  \/ Discard
  \/ registerPrefixAmong(RegisteredLetters)
  \/ unregisterPrefixAmong(RegisteredLetters)

SpecPrefixes == Init /\ [][NextPrefixes]_vars

\* the centres of uncertainty literals: whole numbers, and numbers with a
\* point and 0 or 1 fractional digits
Centres == {"1", "2", "1.", "1.1", "0.5"}

\* the offsets of symmetric uncertainty: digit runs, a decimal, a bare
\* repetend and a repeating decimal
Offsets == {"1", "2", "0.1", "#1", "0.#1"}

SymmetricLiterals ==
  {sign \o c \o "[" \o pm \o x \o "]" :
     sign \in {"", "-"}, c \in Centres, pm \in {"+-", "-+"}, x \in Offsets}

\* centres that carry scientific notation
ScientificCentres == {"2E1", "1.E1", "1.e1", "1_^1", "2_^1"}

\* the bodies of an uncertainty bracket: symmetric, range and relative
Bodies == {"+-1", "-+1", "5,6", "5:6", "0,1", "+1,-1", "+1"}

UncertainScientific == {c \o "[" \o body \o "]" : c \in ScientificCentres, body \in Bodies}

Uncertainties ==
  SymmetricLiterals \cup UncertainScientific
    \cup {c \o "[" \o body \o "]" : c \in {"1.2", "2"}, body \in Bodies}

\* the calls on uncertainty literals
NextUncertainty ==
  Call(Uncertainties) \/ Parse \/ Discard \/ registerPrefix \/ unregisterPrefix

SpecUncertainty == Init /\ [][NextUncertainty]_vars

\* ------------------------------------------------------------------------
\* Properties of the value returned by Parser.parse
\* ------------------------------------------------------------------------

returnedValue == outcome.value

succeeded == returned /\ outcome.ok

raised == returned /\ ~outcome.ok

whole(v) == v.lo = v.hi /\ v.lo.d = 1

\* the alphabet in which an unprefixed digit run is read
alphabetOf(inputBase) ==
  IF inputBase = NoBase THEN DECIMAL.characters ELSE inputBase.characters

decimalInput == options.inputBase \in {NoBase, DECIMAL}

digitsOf(text) == {charAt(text, i) : i \in {j \in 0..(Len(text) - 1) : isDigit(charAt(text, j))}}

\* every digit of the text belongs to the alphabet of the input base
writtenIn(text, inputBase) ==
  \A c \in digitsOf(text) : includes(alphabetOf(inputBase), c)

\* the same class and the same endpoints, or an error on both sides
sameOutcome(a, b) ==
  /\ a.ok = b.ok
  /\ a.ok => a.value.t = b.value.t /\ a.value.tr = b.value.tr
               /\ a.value.lo = b.value.lo /\ a.value.hi = b.value.hi

before(text, sep) == substring(text, 0, indexOf(text, sep))

after(text, sep) == substringFrom(text, indexOf(text, sep) + Len(sep))

\* C1: in type-aware mode a fraction literal whose written denominator is
\* not 1 and whose value is a whole number is returned as an Integer,
\* whether it is written in decimal, under a non-decimal input base or
\* with a prefix.
WholeFractionIsInteger ==
  (/\ succeeded
   /\ options.typeAware
   /\ expression \in Fractions \cup PrefixedFractions
   /\ after(expression, "/") # "1"
   /\ whole(returnedValue))
    => isInteger(returnedValue)

\* C2: every interval returned has lo <= hi, and an interval literal gives
\* the same outcome when its two endpoints are written in the other order,
\* for every form of endpoint and every input base.
IntervalOrder ==
  /\ (succeeded /\ isInterval(returnedValue) /\ ~returnedValue.tr) => QLe(returnedValue.lo, returnedValue.hi)
  /\ (returned /\ expression \in IntervalLiterals) =>
        sameOutcome(outcome,
                    invoke("parse", <<after(expression, ":") \o ":" \o before(expression, ":"),
                                      options>>))

\* C3: with typeAware false every value returned is a RationalInterval.
CompatibilityReturnsIntervals ==
  (succeeded /\ ~options.typeAware) => isInterval(returnedValue)

\* the interval a non-repeating decimal with k fractional digits denotes
\* when typeAware is false: 5 units of the next place on either side
decimalEnclosure(d) ==
  LET integerPart == before(d, ".")
      fractionalPart == after(d, ".")
      centre == Q(bigInt(integerPart \o fractionalPart), IPow(10, Len(fractionalPart)))
      halfWidth == Q(5, IPow(10, Len(fractionalPart) + 1))
  IN mkValue("RationalInterval", QSub(centre, halfWidth), QAdd(centre, halfWidth))

\* C4: with typeAware false and decimal input a non-repeating decimal d
\* with k fractional digits stands for [d - 5/10^(k+1), d + 5/10^(k+1)]
\* wherever it occurs: d + t is the sum of that interval and the value of t.
DecimalEnclosureEverywhere ==
  (/\ returned
   /\ ~options.typeAware
   /\ decimalInput
   /\ expression \in DecimalSums)
    => LET rest == invoke("parse", <<after(expression, "+"), options>>)
       IN rest.ok =>
            sameOutcome(outcome, add(decimalEnclosure(before(expression, "+")), rest.value))

MultiplicativePowers ==
  Powers("**") \cup Parenthesised(Powers("**")) \cup {"2E1**2"}

\* C5: in type-aware mode, when the whole expression is a multiplicative
\* power x ** k written in the digits of the input base, the value returned
\* is a RationalInterval, also when it is a point with a whole value.
MultiplicativePowerStaysInterval ==
  (/\ succeeded
   /\ options.typeAware
   /\ expression \in MultiplicativePowers
   /\ writtenIn(expression, options.inputBase))
    => isInterval(returnedValue)

\* 2**3 has been parsed in type-aware mode and is the interval [8, 8]
MultiplicativePowerOfTwo ==
  /\ succeeded
  /\ options.typeAware
  /\ expression = "2**3"
  /\ isInterval(returnedValue)
  /\ returnedValue.lo = QInt(8)
  /\ returnedValue.hi = QInt(8)

ZeroBases == {"0", "0/1", "0.0", "0:0", "(0)", "(1-1)"}

ZeroExponents == {"0", "(0)", "0/1", "(1-1)"}

ZeroFactorsRaises ==
  (/\ returned
   /\ decimalInput
   /\ \E x \in PowerBases, k \in ZeroExponents : expression = x \o "**" \o k)
    => ~outcome.ok

\* some character of the text is outside the alphabet of the input base
outsideAlphabet(text, inputBase) ==
  \E i \in 0..(Len(text) - 1) : ~includes(inputBase.characters, charAt(text, i))

\* C8: under a non-decimal input base an unprefixed digit run with a
\* character outside the alphabet of that base is an error; it is never
\* read as a decimal number.
ForeignDigitRaises ==
  (/\ returned
   /\ ~decimalInput
   /\ expression \in DigitRuns
   /\ outsideAlphabet(expression, options.inputBase))
    => ~outcome.ok

\* texts that are not one complete expression once the whitespace is
\* removed: empty, unbalanced, or with characters after the expression
Malformed ==
  {"", " ", "  "} \cup {"(" \o s : s \in Numerals} \cup {s \o ")" : s \in Numerals}
    \cup {s \o t : s \in Positive, t \in {"x", "):3.~7", "x:3.~7", ")+1", "+", "(", "^"}}
    \cup {"((1)", "(1))", "SIN(1", "2^(1", "2**(1", "(1+2", "1+2)"}

\* C9: parse returns a value only for a complete expression: an empty
\* text, unbalanced parentheses and characters left after the expression
\* are errors.
OnlyCompleteExpressions ==
  (returned /\ expression \in Malformed) => ~outcome.ok

\* C10: in type-aware mode b ^ k with a whole exponent k, written bare or
\* in parentheses, is the exact power promoted normally: for whole b it is
\* the Integer b^k.
WholePowerIsInteger ==
  \A b \in 1..MaxValue, k \in 0..MaxValue :
    (/\ succeeded
     /\ options.typeAware
     /\ decimalInput
     /\ expression \in {ToString(b) \o "^" \o ToString(k),
                        ToString(b) \o "^(" \o ToString(k) \o ")"})
      => isInteger(returnedValue) /\ returnedValue.lo = QInt(IPow(b, k))

\* C11: ^ and ** are right-associative: 2 ^ b ^ c and 2 ** b ** c are
\* accepted and their value is 2 to the power b^c.
PowerChainAssociatesRight ==
  \A b \in 1..MaxValue, c \in 1..MaxValue :
    (/\ returned
     /\ decimalInput
     /\ \E operator \in {"^", "**"} :
          expression = "2" \o operator \o ToString(b) \o operator \o ToString(c))
      => /\ outcome.ok
         /\ returnedValue.lo = QInt(IPow(2, IPow(b, c)))
         /\ returnedValue.hi = QInt(IPow(2, IPow(b, c)))

\* C12: the exponent of ^ and of ** is exactly the next factor: a decimal
\* exponent is taken whole (2 ^ 1.5 is 2 ^ (1.5)), and an operator after the
\* exponent is not part of it (2 ** 0.5 + 1 is (2 ** (0.5)) + 1).
ExponentIsNextFactor ==
  \A operator \in {"^", "**"}, e \in DecimalExponents, rest \in AfterExponent :
    (returned /\ decimalInput)
      => /\ expression = "2" \o operator \o e
              => sameOutcome(outcome,
                             invoke("parse", <<"2" \o operator \o "(" \o e \o ")", options>>))
         /\ expression = "2" \o operator \o e \o rest
              => sameOutcome(outcome,
                             invoke("parse", <<"(2" \o operator \o "(" \o e \o "))" \o rest, options>>))

\* C13: for a rational exponent p/2, r^2 ** (p/2) is the square root r of
\* the base raised to the whole power p (the reciprocal for negative p),
\* whether the base is written bare or in parentheses: the value returned
\* encloses r^p.
RootIsRaisedToNumerator ==
  \A r \in 1..2, p \in {-3, -1, 1, 3} :
    (/\ returned
     /\ decimalInput
     /\ expression \in {ToString(r * r) \o "**(" \o ToString(p) \o "/2)",
                        "(" \o ToString(r * r) \o ")**(" \o ToString(p) \o "/2)"})
      => /\ outcome.ok
         /\ isInterval(returnedValue)
         /\ returnedValue.tr
         /\ returnedValue.lo = QPow(QInt(r), p)

\* C14: an E after whitespace is a binary operator whose operands are whole
\* factors: a Eb^c is a * 10^(b^c), while the tight aEb^c is (a * 10^b)^c.
SpacedEIsOperator ==
  \A a \in 1..MaxValue, b \in 1..2, c \in 1..2 :
    (returned /\ decimalInput)
      => /\ expression = ToString(a) \o " E" \o ToString(b) \o "^" \o ToString(c)
              => outcome.ok /\ isPoint(returnedValue)
                   /\ returnedValue.lo = QInt(a * IPow(10, IPow(b, c)))
         /\ expression = ToString(a) \o "E" \o ToString(b) \o "^" \o ToString(c)
              => outcome.ok /\ isPoint(returnedValue)
                   /\ returnedValue.lo = QInt(IPow(a * IPow(10, b), c))

\* C15: after an unparenthesised interval literal a:b a spaced E scales both
\* endpoints, a:b Ek = [a * 10^k, b * 10^k], and a tight E scales the right
\* endpoint only, a:bEk = the ordered interval of a and b * 10^k (decimal
\* input, k not zero).
SpacedEScalesBothEndpoints ==
  \A a \in IntervalEndpoints, b \in IntervalEndpoints, k \in ScalingExponents :
    (returned /\ decimalInput)
      => /\ expression = a.text \o ":" \o b.text \o " E" \o ToString(k)
              => sameOutcome(outcome,
                             Ok(newRationalInterval(QMul(a.q, QPow(QInt(10), k)),
                                                    QMul(b.q, QPow(QInt(10), k))), ""))
         /\ expression = a.text \o ":" \o b.text \o "E" \o ToString(k)
              => sameOutcome(outcome,
                             Ok(newRationalInterval(a.q, QMul(b.q, QPow(QInt(10), k))), ""))

\* C16: a minus in front of a parenthesised group is accepted whatever the
\* text after the group holds: -(a+b) followed by "+ 1:3" is the interval
\* [1-(a+b), 3-(a+b)], just as -(a+b) alone is -(a+b).
LeadingMinusIgnoresLaterText ==
  \A a \in 1..MaxValue, b \in 1..MaxValue :
    (returned /\ decimalInput)
      => /\ expression = "-(" \o ToString(a) \o "+" \o ToString(b) \o ")"
              => outcome.ok /\ isPoint(returnedValue)
                   /\ returnedValue.lo = QInt(0 - (a + b))
         /\ expression \in {"-(" \o ToString(a) \o "+" \o ToString(b) \o ")" \o rest :
                               rest \in {" + 1:3", "+1:3"}}
              => outcome.ok
                   /\ returnedValue.lo = QInt(1 - (a + b))
                   /\ returnedValue.hi = QInt(3 - (a + b))

\* the digit runs that follow a prefix in the texts of the calls
RunsAfterPrefix == {"1", "10", "11", "12", "101"}

numberIn(baseSystem, digits) == QInt(toDecimal(baseSystem, digits))

\* the denominator of a fraction and the fraction part of a mixed number
\* are decoded in the base of the prefix that opens the literal
PrefixReachesFraction ==
  \A p \in {"x", "b"}, a \in {"1", "a"}, d \in {"10", "11"} :
    LET prefixBase == options.prefixes[p]
    IN (returned /\ isValidString(prefixBase, a))
         => /\ expression = "0" \o p \o a \o "/" \o d
                 => outcome.ok /\ isPoint(returnedValue)
                      /\ returnedValue.lo = QDiv(numberIn(prefixBase, a), numberIn(prefixBase, d))
            /\ (d = "10" /\ expression = "0" \o p \o a \o "..1/" \o d)
                 => outcome.ok /\ isPoint(returnedValue)
                      /\ returnedValue.lo =
                           QAdd(numberIn(prefixBase, a), QDiv(QInt(1), numberIn(prefixBase, d)))

\* the exponent after _^ is decoded in the base of the prefix, and scales
\* by a power of that base
PrefixReachesExponent ==
  \A p \in {"x", "b"}, a \in {"1", "a"}, k \in {"1", "10"} :
    LET prefixBase == options.prefixes[p]
    IN (returned /\ isValidString(prefixBase, a) /\ expression = "0" \o p \o a \o "_^" \o k)
         => outcome.ok /\ isPoint(returnedValue)
              /\ returnedValue.lo =
                   QMul(numberIn(prefixBase, a),
                        QInt(IPow(baseOf(prefixBase), toDecimal(prefixBase, k))))

\* the right endpoint of an interval is decoded in the base of the prefix
\* that opens the literal
PrefixReachesEndpoint ==
  \A p \in {"x", "b"}, a \in {"1", "a"}, b \in {"10", "11"} :
    LET prefixBase == options.prefixes[p]
    IN (returned /\ isValidString(prefixBase, a) /\ expression = "0" \o p \o a \o ":" \o b)
         => outcome.ok
              /\ returnedValue.lo = QMin({numberIn(prefixBase, a), numberIn(prefixBase, b)})
              /\ returnedValue.hi = QMax({numberIn(prefixBase, a), numberIn(prefixBase, b)})

\* C18: the base selected by a prefix applies to the whole remainder of its
\* literal: the denominator of a fraction, the fraction part of a mixed
\* number, the right endpoint of an interval and a _^ exponent are decoded
\* in the prefix's base, whatever the input base is.
PrefixReachesWholeLiteral ==
  PrefixReachesFraction /\ PrefixReachesExponent /\ PrefixReachesEndpoint

\* the text begins with 0e or 0E, after an optional minus
beginsWithZeroE(text) ==
  \E sign \in {"", "-"}, e \in {"e", "E"} : startsWith(text, sign \o "0" \o e)

\* the letter that follows the leading 0
letterAfterZero(text) == IF charAt(text, 0) = "-" THEN charAt(text, 2) ELSE charAt(text, 1)

\* C19 (as stated): a literal beginning 0e or 0E is never resolved through
\* the prefix registry: its outcome is the one it has with the registry as
\* loaded, whatever the registry contains.
ZeroENeverAPrefix ==
  (returned /\ beginsWithZeroE(expression))
    => sameOutcome(outcome,
                   invoke("parse", <<expression, [options EXCEPT !.prefixes = DefaultPrefixes]>>))

\* C19 (amended): a literal beginning 0e or 0E is looked up in the registry
\* like any other letter. When the letter is registered the rest of the
\* literal is decoded in the registered base, under every input base; when
\* it is not, the literal is spared the invalid-prefix error and is read as
\* a number followed by E (0E1 is 0 in decimal) or as digits of the input
\* base (0e1 is 225 in hexadecimal).
ZeroEFollowsRegistry ==
  (returned /\ beginsWithZeroE(expression))
    => LET letter == letterAfterZero(expression)
       IN /\ letter \in DOMAIN options.prefixes
               => \A s \in RunsAfterPrefix :
                    (isValidString(options.prefixes[letter], s) /\ expression = "0" \o letter \o s)
                      => outcome.ok /\ isPoint(returnedValue)
                           /\ returnedValue.lo = numberIn(options.prefixes[letter], s)
          /\ letter \notin DOMAIN options.prefixes
               => /\ outcome.ok \/ outcome.err # "Invalid or unregistered prefix"
                  /\ (decimalInput /\ expression \in {"0E1", "0E2"})
                       => outcome.ok /\ isPoint(returnedValue) /\ returnedValue.lo = QInt(0)
                  /\ (options.inputBase = HEXADECIMAL /\ expression = "0e1")
                       => outcome.ok /\ isPoint(returnedValue) /\ returnedValue.lo = QInt(225)

\* with e registered for base 3, 0e12 has been parsed and is 5
ZeroEDecodedAsRegistered ==
  /\ returned /\ expression = "0e12" /\ "e" \in DOMAIN options.prefixes
  /\ outcome.ok /\ returnedValue.lo = QInt(5)

\* the base in which a literal is decoded: the base of its prefix when it
\* has one, else the input base, else base 10
effectiveBase(prefix) ==
  IF prefix # "" THEN options.prefixes[charAt(prefix, 1)]
  ELSE IF options.inputBase = NoBase THEN DECIMAL
  ELSE options.inputBase

\* the whole number a signed digit run stands for in a base
signedIn(baseSystem, digits) ==
  IF charAt(digits, 0) = "-" THEN 0 - toDecimal(baseSystem, substringFrom(digits, 1))
  ELSE toDecimal(baseSystem, digits)

SignedExponents == ScientificExponents \cup {"0", "10"}

\* C21: for every scalar mantissa m and every signed exponent k, zero and
\* negative ones included, m E k in base 10 is m * 10^k, and m _^ k is
\* m * B^k with B the input base and k read in the input base.
ScientificScalesByPower ==
  \A m \in ScientificMantissas, k \in SignedExponents :
    returned
      => LET baseSystem == effectiveBase("")
             written == isValidString(baseSystem, m)
                          /\ isValidString(baseSystem, removeFirst(k, "-"))
         IN /\ (written /\ expression = m \o "_^" \o k)
                 => outcome.ok /\ isPoint(returnedValue)
                      /\ returnedValue.lo =
                           QMul(numberIn(baseSystem, m),
                                QPow(QInt(baseOf(baseSystem)), signedIn(baseSystem, k)))
            /\ (baseOf(baseSystem) = 10 /\ expression = m \o "E" \o k)
                 => outcome.ok /\ isPoint(returnedValue)
                      /\ returnedValue.lo =
                           QMul(numberIn(DECIMAL, m), QPow(QInt(10), signedIn(DECIMAL, k)))

\* the digits of a literal, without its sign, point and repetend mark
bareDigits(text) == removeFirst(removeFirst(removeFirst(text, "-"), "."), "#")

\* the number a centre "a", "a." or "a.b" stands for in a base
centreValue(baseSystem, c) ==
  IF includes(c, ".")
    THEN QAdd(numberIn(baseSystem, before(c, ".")),
              Q(toDecimal(baseSystem, after(c, ".")),
                IPow(baseOf(baseSystem), Len(after(c, ".")))))
  ELSE numberIn(baseSystem, c)

\* the number of fractional digits of a centre
fractionalDigits(c) == IF includes(c, ".") THEN Len(after(c, ".")) ELSE 0

\* the number an offset "x" or "0.x" stands for in a base; a repeating
\* offset "#r" or "0.#r" is always read in base 10
offsetValue(baseSystem, x) ==
  IF includes(x, "#")
    THEN Q(toDecimal(DECIMAL, after(x, "#")), IPow(10, Len(after(x, "#"))) - 1)
  ELSE centreValue(baseSystem, x)

\* the outcome is the interval of half-width s around v
isAround(v, s) ==
  outcome.ok /\ returnedValue.lo = QSub(v, s) /\ returnedValue.hi = QAdd(v, s)

\* the symmetric literal sign c [pm x] is the interval around the value of
\* c whose half-width is x times the scale that the rule gives
symmetricFollows(scaleOf(_, _)) ==
  \A sign \in {"", "-"}, c \in Centres, pm \in {"+-", "-+"}, x \in Offsets :
    LET baseSystem == effectiveBase("")
        v == IF sign = "-" THEN QSub(QInt(0), centreValue(baseSystem, c))
             ELSE centreValue(baseSystem, c)
    IN (/\ returned
        /\ expression = sign \o c \o "[" \o pm \o x \o "]"
        /\ isValidString(baseSystem, bareDigits(c))
        /\ isValidString(baseSystem, bareDigits(x)))
         => isAround(v, QMul(offsetValue(baseSystem, x),
                             Q(1, IPow(baseOf(baseSystem), scaleOf(c, x)))))

\* the scale of the claim as stated: the place after the last fractional
\* digit, or the last place itself when the offset is a repeating decimal
nextPlace(c, x) == IF includes(x, "#") THEN fractionalDigits(c) ELSE fractionalDigits(c) + 1

\* the amended scale: none for a centre written without a point; otherwise
\* the last place when the offset begins with the repetend mark, and the
\* place after it for every other offset
nextPlaceAfterPoint(c, x) ==
  IF ~includes(c, ".") THEN 0
  ELSE IF startsWith(x, "#") THEN fractionalDigits(c)
  ELSE fractionalDigits(c) + 1

\* C22 (as stated): c[+-x] under input base B is [v - s, v + s] with
\* s = x * B^-(d+1), d the number of fractional digits of c (0 when it has
\* none), and s = x * B^-d when x is a repeating decimal.
SymmetricScalesToNextPlace == symmetricFollows(nextPlace)

\* C22 (amended): c[+-x] under input base B is [v - s, v + s]; s = x when
\* c is written without a point; when c has a point and d fractional
\* digits, s = x * B^-(d+1), and s = x * B^-d when x begins with #.
SymmetricScalesAfterPoint == symmetricFollows(nextPlaceAfterPoint)

\* 1.1[+-1] has been parsed in base 10 and is [1.09, 1.11]
SymmetricAroundDecimal ==
  /\ returned /\ decimalInput /\ expression = "1.1[+-1]"
  /\ outcome.ok /\ returnedValue.lo = Q(109, 100) /\ returnedValue.hi = Q(111, 100)

\* the centre of the uncertainty literal carries scientific notation: E or
\* e in base 10, or _^ in any base
scientificCentre(c) ==
  \/ includes(c, "_^")
  \/ baseOf(effectiveBase("")) = 10 /\ (includes(c, "E") \/ includes(c, "e"))

\* C23: an uncertainty literal whose centre contains scientific notation is
\* rejected with an error, for every form of body: range, relative and
\* symmetric.
ScientificCentreRaises ==
  \A c \in ScientificCentres, body \in Bodies :
    (returned /\ expression = c \o "[" \o body \o "]" /\ scientificCentre(c))
      => ~outcome.ok

\* the value of the coefficient sequence that Parser.parseContinuedFraction
\* returns for a text
recurrenceValue(cfString) == fromContinuedFraction(parseContinuedFraction(cfString).cf)

\* C24: a continued fraction with a negative integer part, parsed by
\* Parser.parse, is the value of the coefficients [-a, b1, ..., bn] that
\* Parser.parseContinuedFraction returns for the same text (-3.~7 is
\* -20/7), whatever follows the literal: followed by +1 it is that value
\* plus 1, followed by +1:2 the interval from that value plus 1 to it plus 2.
NegativeContinuedFractionIsRecurrence ==
  \A cf \in NegativeContinuedFractions :
    (returned /\ decimalInput)
      => /\ expression = cf
              => outcome.ok /\ isPoint(returnedValue)
                   /\ returnedValue.lo = recurrenceValue(cf)
         /\ expression = cf \o "+1"
              => outcome.ok /\ isPoint(returnedValue)
                   /\ returnedValue.lo = QAdd(recurrenceValue(cf), QInt(1))
         /\ expression \in {cf \o "+1:2", cf \o " + 1:2"}
              => outcome.ok
                   /\ returnedValue.lo = QAdd(recurrenceValue(cf), QInt(1))
                   /\ returnedValue.hi = QAdd(recurrenceValue(cf), QInt(2))

CallReadsRegistry == outcome = NoOutcome /\ outcome' = Pending => options'.prefixes = registry

\* the outcome a call ends with is the one its text and options give
outcomeFollowsCall == returned => outcome = invoke("parse", <<expression, options>>)

\* a literal with the prefix is rejected as unregistered by a call made
\* while the registry does not hold the prefix
rejectedWhileUnregistered(prefix) ==
  (returned /\ prefix \notin DOMAIN options.prefixes
     /\ \E sign \in {"", "-"}, s \in RunsAfterPrefix : expression = sign \o "0" \o prefix \o s)
    => raised /\ outcome.err = "Invalid or unregistered prefix"

DescentRoutines == {"parseTerm", "parseFactor", "parseInterval"}

\* a routine of the descent that succeeds on the text of the call hands
\* back a strictly shorter remainder, which is the end of its text
descentShortens ==
  returned
    => \A routine \in DescentRoutines :
         LET text == normalizeExpression(expression)
             result == invoke(routine, <<text, options>>)
         IN result.ok => Len(result.rem) < Len(text) /\ endsWith(text, result.rem)

\* C27: every call of Parser.parse ends, with a value or with an error, and
\* each step of the descent (term, factor, interval) strictly shortens the
\* text that remains.
ParseTerminates == (outcome = Pending ~> returned) /\ []descentShortens

\* a product whose first factor is a parenthesised fraction has been
\* evaluated to the end of its text
GroupedProductEvaluated ==
  /\ succeeded /\ expression = "(1/2)*2" /\ Len(outcome.rem) = 0
  /\ returnedValue.lo = Q(1, 1) /\ returnedValue.hi = Q(1, 1)

\* the text with its spaces taken out
withoutSpaces(text) == replaceAll(text, " ", "")

\* the characters after which an operand begins
OperandOpeners == {"+", "-", "*", "/", "(", "^", ",", ":"}

\* the text has a space and a capital E after the end of a value
spacedEAfterValue(text) ==
  \E i \in 1..(Len(text) - 2) :
    charAt(text, i) = " " /\ charAt(text, i + 1) = "E" /\ charAt(text, i - 1) \notin OperandOpeners \cup {" "}

\* the text has a space after a slash
spaceAfterSlash(text) == includes(text, "/ ")

\* C28: apart from a space before a capital E that follows a value and a
\* space after a slash, the spaces of the text change neither the value nor
\* whether the call succeeds: the call ends as the call on the text without
\* its spaces ends.
WhitespaceInsignificant ==
  (returned /\ ~spacedEAfterValue(expression) /\ ~spaceAfterSlash(expression))
    => sameOutcome(outcome, invoke("parse", <<withoutSpaces(expression), options>>))

\* C29: the markers TE and /S typed by the caller are not taken for a
\* spaced E or for the division mark: in the decimal base a text with a
\* typed marker between two numbers, such as 5TE2 or 1/S2, is rejected.
TypedMarkersRejected ==
  (returned /\ decimalInput /\ expression \in TypedMarkers) => raised

\* the text of -a^b
negatedPower(a, b) == "-" \o ToString(a) \o "^" \o ToString(b)

\* C30: a negated power is worth -(a^b) whatever follows it: -a^b alone is
\* -(a^b), -a^b+1 is 1-(a^b), and -a^b followed by "+ 1:2" is the interval
\* [1-(a^b), 2-(a^b)].
NegatedPowerIgnoresContext ==
  \A a \in 1..MaxValue, b \in 1..2 :
    (returned /\ decimalInput)
      => /\ expression = negatedPower(a, b)
              => outcome.ok /\ isPoint(returnedValue)
                   /\ returnedValue.lo = QNeg(QPow(QInt(a), b))
         /\ expression = negatedPower(a, b) \o "+1"
              => outcome.ok /\ isPoint(returnedValue)
                   /\ returnedValue.lo = QSub(QInt(1), QPow(QInt(a), b))
         /\ expression \in {negatedPower(a, b) \o rest : rest \in {" + 1:2", "+1:2"}}
              => outcome.ok
                   /\ returnedValue.lo = QSub(QInt(1), QPow(QInt(a), b))
                   /\ returnedValue.hi = QSub(QInt(2), QPow(QInt(a), b))

====
